---- MODULE Spec2Model ----
(***************************************************************************)
(* fileflow: intermediate file storage between Airflow tasks.              *)
(*                                                                         *)
(* The model follows the Python 2 sources (airflow ~= 1.7, boto ~= 2.38).  *)
(* A Python str is a sequence of one-character strings (<<"a","/","b">>),  *)
(* a payload (a Python 2 byte string) is a sequence of byte values, and    *)
(* a decoded text (unicode) is a sequence of code points.                  *)
(***************************************************************************)
EXTENDS Integers, Sequences, FiniteSets, TLC

VARIABLES
    conf,        \* the airflow configuration: section 'fileflow', option -> value
    fsFiles,     \* local file system: resolved path of a regular file -> bytes
    fsDirs,      \* local file system: resolved paths of the directories
    buckets,     \* S3: bucket name -> (key name -> stored object)
    driver,      \* the storage driver instance under use (or NoDriver)
    last,        \* the last call made and what it returned or raised
    written,     \* history: locator -> payload of the last successful write
    nwrites,     \* history: number of write calls made
    runner       \* the TaskRunner instance (or NoRunner)

vars == <<conf, fsFiles, fsDirs, buckets, driver, last, written, nwrites, runner>>

-----------------------------------------------------------------------------
(* Python strings                                                          *)

\* str.startswith
StartsWith(s, p) == Len(s) >= Len(p) /\ SubSeq(s, 1, Len(p)) = p

\* s[n:]
DropFirst(s, n) == IF n >= Len(s) THEN <<>> ELSE SubSeq(s, n + 1, Len(s))

\* str.rstrip(c)
RECURSIVE RStrip(_, _)
RStrip(s, c) ==
    IF s # <<>> /\ s[Len(s)] = c THEN RStrip(SubSeq(s, 1, Len(s) - 1), c) ELSE s

\* str.rfind(c) + 1: the length of the part of s up to and including the last c
RECURSIVE RFindEnd(_, _)
RFindEnd(s, c) ==
    IF s = <<>> THEN 0
    ELSE IF s[Len(s)] = c THEN Len(s)
    ELSE RFindEnd(SubSeq(s, 1, Len(s) - 1), c)

\* `sub in s` for strings
Contains(s, sub) ==
    \E i \in 0..(Len(s) - Len(sub)) : SubSeq(s, i + 1, i + Len(sub)) = sub

\* the components of s between separators c, the empty ones dropped
RECURSIVE SplitOn(_, _, _)
SplitOn(s, c, cur) ==
    IF s = <<>> THEN (IF cur = <<>> THEN <<>> ELSE <<cur>>)
    ELSE IF Head(s) = c
         THEN (IF cur = <<>> THEN <<>> ELSE <<cur>>) \o SplitOn(Tail(s), c, <<>>)
         ELSE SplitOn(Tail(s), c, Append(cur, Head(s)))

\* a set as a sequence, in an order the caller may not rely on
RECURSIVE SeqOfSet(_)
SeqOfSet(S) ==
    IF S = {} THEN <<>>
    ELSE LET e == CHOOSE e \in S : TRUE IN <<e>> \o SeqOfSet(S \ {e})

\* the elements of a sequence
Range(s) == {s[i] : i \in DOMAIN s}

-----------------------------------------------------------------------------
(* posixpath                                                               *)

\* a + '/' + b
PathJoin2_Concat(a, b) == a \o <<"/">> \o b

\* os.path.join(a, b)
PathJoin2(a, b) ==
    IF StartsWith(b, <<"/">>) THEN b
    ELSE IF a = <<>> \/ a[Len(a)] = "/" THEN a \o b
    ELSE a \o <<"/">> \o b

\* os.path.join(a, *p)
RECURSIVE PathJoin(_, _)
PathJoin(a, p) == IF p = <<>> THEN a ELSE PathJoin(PathJoin2(a, Head(p)), Tail(p))

\* os.path.dirname(p)
PathDirname(p) ==
    LET head == SubSeq(p, 1, RFindEnd(p, "/"))
    IN  IF head # <<>> /\ RStrip(head, "/") # <<>> THEN RStrip(head, "/") ELSE head

\* How the kernel resolves a path name: its components, with a leading
\* "/" component when the path is absolute.
ResolvePath(p) ==
    (IF StartsWith(p, <<"/">>) THEN << <<"/">> >> ELSE <<>>) \o SplitOn(p, "/", <<>>)

\* the resolved paths of p and of all the directories above it
Ancestors(rp) == {SubSeq(rp, 1, n) : n \in 1..Len(rp)}

-----------------------------------------------------------------------------
(* Dates and codecs                                                        *)

Digit(n) == <<"0", "1", "2", "3", "4", "5", "6", "7", "8", "9">>[n + 1]

\* '%0wd' of n
ZeroPad(n, w) == [i \in 1..w |-> Digit((n \div (10 ^ (w - i))) % 10)]

\* StorageDriver.execution_date_string: execution_date.strftime("%Y-%m-%d")
execution_date_string(execution_date) ==
    ZeroPad(execution_date.year, 4) \o <<"-">> \o ZeroPad(execution_date.month, 2)
        \o <<"-">> \o ZeroPad(execution_date.day, 2)

\* bytes.decode('utf-8') over one- and two-byte sequences: <<TRUE, text>>, or
\* <<FALSE, <<>>>> for a UnicodeDecodeError.  Lead bytes of three- and
\* four-byte sequences are outside the payload alphabet of the model.
RECURSIVE Utf8Decode(_)
Utf8Decode(b) ==
    IF b = <<>> THEN <<TRUE, <<>>>>
    ELSE IF b[1] < 128
    THEN LET r == Utf8Decode(Tail(b))
         IN  IF r[1] THEN <<TRUE, <<b[1]>> \o r[2]>> ELSE r
    ELSE IF b[1] >= 194 /\ b[1] <= 223 /\ Len(b) >= 2 /\ b[2] >= 128 /\ b[2] <= 191
    THEN LET r == Utf8Decode(Tail(Tail(b)))
         IN  IF r[1] THEN <<TRUE, <<(b[1] - 192) * 64 + (b[2] - 128)>> \o r[2]>> ELSE r
    ELSE <<FALSE, <<>>>>

\* bytes.decode(encoding)
Decode(b, encoding) ==
    IF encoding = "latin-1" THEN <<TRUE, b>> ELSE Utf8Decode(b)

-----------------------------------------------------------------------------
(* Values, results and errors                                              *)

\* Python's None where a str is expected (no str of the model equals it)
None == <<"None">>

NoError == [type |-> "", message |-> <<>>]

\* an exception: its class and the pieces its message is formatted from
Error(type, message) == [type |-> type, message |-> message]

\* what a call did: returned val, or raised err
Return(val) == [ok |-> TRUE, val |-> val, err |-> NoError]
Raise(err) == [ok |-> FALSE, val |-> None, err |-> err]

-----------------------------------------------------------------------------
(* fileflow/configuration.py                                               *)

\* the options get_storage_driver looks up, in the order it looks them up
OptionNames ==
    <<"storage_type", "storage_prefix", "environment",
      "aws_access_key_id", "aws_secret_access_key", "aws_bucket_name">>

\* `if not has_option('fileflow', option): set('fileflow', option, value)`
SetDefault(options, option, value) ==
    IF option \in DOMAIN options THEN options ELSE options @@ (option :> value)

\* The module body: the [fileflow] options after the defaults are applied to
\* the options of airflow.cfg.  environ holds the two AIRFLOW__FILEFLOW__AWS_*
\* variables (<<>> when unset or empty), boto the [Credentials] of the boto
\* configuration (None when it has none).
ApplyDefaults(options, environ, boto) ==
    LET o1 == SetDefault(options, "environment", <<"p","r","o","d","u","c","t","i","o","n">>)
        o2 == SetDefault(o1, "storage_prefix", <<"s","t","o","r","a","g","e">>)
        o3 == SetDefault(o2, "storage_type", <<"f","i","l","e">>)
        o4 == SetDefault(o3, "aws_bucket_name", <<"m","y","b","e","a","u","t","i","f","u","l","b","u","c","k","e","t">>)
        o5 == SetDefault(o4, "aws_access_key_id",
                  IF environ["aws_access_key_id"] # <<>>
                  THEN environ["aws_access_key_id"] ELSE boto["aws_access_key_id"])
        o6 == IF "aws_secret_access_key" \in DOMAIN o5 THEN o5
              ELSE [k \in DOMAIN o5 \cup {"aws_secret_acccess_key"} |->
                      IF k = "aws_secret_acccess_key"
                      THEN (IF environ["aws_secret_access_key"] # <<>>
                            THEN environ["aws_secret_access_key"]
                            ELSE boto["aws_secret_access_key"])
                      ELSE o5[k]]
    IN  [options |-> o6, environ |-> environ]

\* configuration.get('fileflow', key): airflow looks at the environment
\* variable AIRFLOW__FILEFLOW__<KEY> first, then at the option, and raises
\* AirflowConfigException when neither is there.
configuration_get(c, key) ==
    IF key \in DOMAIN c.environ /\ c.environ[key] # <<>> THEN Return(c.environ[key])
    ELSE IF key \in DOMAIN c.options THEN Return(c.options[key])
    ELSE Raise(Error("AirflowConfigException",
                     <<"section/key [fileflow/", key, "] not found in config">>))

-----------------------------------------------------------------------------
(* The media: the local file system and S3                                 *)

\* os.path.exists(p)
PathExists(files, dirs, p) == ResolvePath(p) \in dirs \/ ResolvePath(p) \in DOMAIN files

\* boto's Key.DefaultContentType
DefaultContentType == <<"application/octet-stream">>

\* a stored S3 object
S3Object(data, content_type, acl) ==
    [data |-> data, content_type |-> content_type, acl |-> acl]

-----------------------------------------------------------------------------
(* fileflow/storage_drivers: the driver objects                            *)

\* FileStorageDriver.__init__
FileStorageDriver(prefix) ==
    [kind |-> "file", prefix |-> prefix, bucket_name |-> None,
     access_key_id |-> None, secret_access_key |-> None]

\* S3StorageDriver.__init__ with get_bucket(validate=False): no request is
\* made for the bucket
S3StorageDriver_NoValidation(access_key_id, secret_access_key, bucket_name, bk) ==
    Return([kind |-> "s3", prefix |-> None, bucket_name |-> bucket_name,
            access_key_id |-> access_key_id, secret_access_key |-> secret_access_key])

\* S3StorageDriver.__init__: boto.connect_s3, then get_bucket, which raises
\* S3ResponseError when the bucket does not exist
S3StorageDriver(access_key_id, secret_access_key, bucket_name, bk) ==
    IF bucket_name \in DOMAIN bk
    THEN Return([kind |-> "s3", prefix |-> None, bucket_name |-> bucket_name,
                 access_key_id |-> access_key_id,
                 secret_access_key |-> secret_access_key])
    ELSE Raise(Error("S3ResponseError", <<"404 Not Found: ">> \o bucket_name))

NoDriver ==
    [kind |-> "none", prefix |-> None, bucket_name |-> None,
     access_key_id |-> None, secret_access_key |-> None]

-----------------------------------------------------------------------------
(* fileflow/storage_drivers/__init__.py                                    *)

\* FullBucketName with the environment appended for production too
FullBucketName_AppendAlways(aws_bucket_name, environment) ==
    IF environment \in {<<"q","a">>, <<"d","e","v","e","l","o","p","m","e","n","t">>, <<"t","e","s","t">>, <<"p","r","o","d","u","c","t","i","o","n">>}
    THEN Return(aws_bucket_name \o environment)
    ELSE Raise(Error("FileflowError", <<"ENVIRONMENT setting is net set correctly">>))

\* FullBucketName with an unknown environment taken for production
FullBucketName_DefaultProduction(aws_bucket_name, environment) ==
    IF environment \in {<<"q","a">>, <<"d","e","v","e","l","o","p","m","e","n","t">>, <<"t","e","s","t">>}
    THEN Return(aws_bucket_name \o environment)
    ELSE Return(aws_bucket_name)

\* lines 61-77: the bucket name for the environment, or FileflowError
FullBucketName(aws_bucket_name, environment) ==
    IF environment \in {<<"q","a">>, <<"d","e","v","e","l","o","p","m","e","n","t">>, <<"t","e","s","t">>}
    THEN Return(aws_bucket_name \o environment)
    ELSE IF environment = <<"p","r","o","d","u","c","t","i","o","n">>
    THEN Return(aws_bucket_name)
    ELSE Raise(Error("FileflowError", <<"ENVIRONMENT setting is net set correctly">>))

\* StorageDriverFor with the file driver as the default for an unknown type
StorageDriverFor_DefaultFile(s, bk) ==
    IF s.storage_type = <<"s","3">>
    THEN LET full_bucket_name == FullBucketName(s.aws_bucket_name, s.environment)
         IN  IF full_bucket_name.ok
             THEN [res |-> S3StorageDriver(s.aws_access_key_id, s.aws_secret_access_key,
                                           full_bucket_name.val, bk),
                   connected |-> TRUE, bucket |-> full_bucket_name.val]
             ELSE [res |-> Raise(full_bucket_name.err),
                   connected |-> FALSE, bucket |-> None]
    ELSE [res |-> Return(FileStorageDriver(s.storage_prefix)),
          connected |-> FALSE, bucket |-> None]

\* StorageDriverFor with the environment checked before the storage type
StorageDriverFor_EnvironmentFirst(s, bk) ==
    LET full_bucket_name == FullBucketName(s.aws_bucket_name, s.environment)
    IN  IF ~full_bucket_name.ok
        THEN [res |-> Raise(full_bucket_name.err), connected |-> FALSE, bucket |-> None]
        ELSE IF s.storage_type = <<"f","i","l","e">>
        THEN [res |-> Return(FileStorageDriver(s.storage_prefix)),
              connected |-> FALSE, bucket |-> None]
        ELSE IF s.storage_type = <<"s","3">>
        THEN [res |-> S3StorageDriver(s.aws_access_key_id, s.aws_secret_access_key,
                                      full_bucket_name.val, bk),
              connected |-> TRUE, bucket |-> full_bucket_name.val]
        ELSE [res |-> Raise(Error("FileflowError",
                         <<"Storage driver type ">> \o s.storage_type
                             \o <<" does not exist.">>)),
              connected |-> FALSE, bucket |-> None]

\* lines 57-81, on the resolved settings s: [res |-> what the call returns
\* or raises, connected |-> whether boto.connect_s3 was called, bucket |->
\* the bucket name S3StorageDriver was constructed with (None when it was
\* not constructed)]
StorageDriverFor(s, bk) ==
    IF s.storage_type = <<"f","i","l","e">>
    THEN [res |-> Return(FileStorageDriver(s.storage_prefix)),
          connected |-> FALSE, bucket |-> None]
    ELSE IF s.storage_type = <<"s","3">>
    THEN LET full_bucket_name == FullBucketName(s.aws_bucket_name, s.environment)
         IN  IF full_bucket_name.ok
             THEN [res |-> S3StorageDriver(s.aws_access_key_id, s.aws_secret_access_key,
                                           full_bucket_name.val, bk),
                   connected |-> TRUE, bucket |-> full_bucket_name.val]
             ELSE [res |-> Raise(full_bucket_name.err),
                   connected |-> FALSE, bucket |-> None]
    ELSE [res |-> Raise(Error("FileflowError",
                     <<"Storage driver type ">> \o s.storage_type \o <<" does not exist.">>)),
          connected |-> FALSE, bucket |-> None]

\* lines 38-54: every argument that is None is looked up in the configuration
LookUp(args, c) ==
    [k \in Range(OptionNames) |->
        IF args[k] = None THEN configuration_get(c, k) ELSE Return(args[k])]

\* get_storage_driver(**args): the look-ups in order, the first missing
\* option raising, then lines 57-81.  settings are the values the call
\* worked with, resolved whether every look-up succeeded.
get_storage_driver(args, c, bk) ==
    LET looked == LookUp(args, c)
        missing == {i \in DOMAIN OptionNames : ~looked[OptionNames[i]].ok}
        first == CHOOSE i \in missing : \A j \in missing : i <= j
        settings == [k \in Range(OptionNames) |-> looked[k].val]
    IN  IF missing # {}
        THEN [res |-> Raise(looked[OptionNames[first]].err), connected |-> FALSE,
              bucket |-> None, settings |-> settings, resolved |-> FALSE]
        ELSE StorageDriverFor(settings, bk)
                 @@ [settings |-> settings, resolved |-> TRUE]

-----------------------------------------------------------------------------
(* Streams: a file object is its content, its position and whether it is   *)
(* closed                                                                  *)

FileObject(content, pos) == [content |-> content, pos |-> pos, closed |-> FALSE]

NoStream == [content |-> <<>>, pos |-> 0, closed |-> TRUE]

\* f.write(data) on a file object positioned at its end
StreamWrite(f, data) ==
    [f EXCEPT !.content = f.content \o data, !.pos = Len(f.content) + Len(data)]

\* f.seek(offset)
StreamSeek(f, offset) == [f EXCEPT !.pos = offset]

\* f.read(): everything from the position to the end
StreamRead(f) == DropFirst(f.content, f.pos)

\* f after f.read(): at its end
StreamAfterRead(f) == [f EXCEPT !.pos = Len(f.content)]

\* f with k mapped to v
Put(f, k, v) == [x \in DOMAIN f \cup {k} |-> IF x = k THEN v ELSE f[x]]

-----------------------------------------------------------------------------
(* fileflow/storage_drivers/file_storage_driver.py                         *)

FileStorageDriver_get_filename(drv, dag_id, task_id, execution_date) ==
    PathJoin(drv.prefix, <<dag_id, task_id, execution_date_string(execution_date)>>)

FileStorageDriver_get_path(drv, dag_id, task_id) ==
    PathJoin(drv.prefix, <<dag_id, task_id>>)

\* open(filename) for reading: the error it raises, or NoError
OpenForReading(files, dirs, filename) ==
    LET rp == ResolvePath(filename)
    IN  IF rp \in DOMAIN files THEN NoError
        ELSE IF rp \in dirs
        THEN Error("IOError", <<"[Errno 21] Is a directory: ">> \o filename)
        ELSE IF \E a \in Ancestors(rp) : a \in DOMAIN files
        THEN Error("IOError", <<"[Errno 20] Not a directory: ">> \o filename)
        ELSE Error("IOError", <<"[Errno 2] No such file or directory: ">> \o filename)

\* the files after codecs.open(filename, 'rb') in append mode: a file that
\* is missing from a directory is created empty
OpenedForReading_Create(files, dirs, filename) ==
    LET rp == ResolvePath(filename)
    IN  IF rp \notin DOMAIN files /\ rp \notin dirs /\ ResolvePath(PathDirname(filename)) \in dirs
        THEN Put(files, rp, <<>>)
        ELSE files

\* the files after codecs.open(filename, 'rb'), whether it raised or not:
\* the mode creates no file and truncates none
OpenedForReading(files, dirs, filename) == files

\* FileStorageDriver.read with the encoding argument not passed on to open
FileStorageDriver_read_DefaultEncoding(files, dirs, drv, dag_id, task_id, execution_date, encoding) ==
    LET filename == FileStorageDriver_get_filename(drv, dag_id, task_id, execution_date)
        e == OpenForReading(files, dirs, filename)
        data == Decode(files[ResolvePath(filename)], "utf-8")
    IN  IF e # NoError THEN Raise(e)
        ELSE IF data[1] THEN Return(data[2])
        ELSE Raise(Error("UnicodeDecodeError", <<"utf-8">>))

\* FileStorageDriver.read: codecs.open(filename, 'rb', encoding).read()
FileStorageDriver_read(files, dirs, drv, dag_id, task_id, execution_date, encoding) ==
    LET filename == FileStorageDriver_get_filename(drv, dag_id, task_id, execution_date)
        e == OpenForReading(files, dirs, filename)
        data == Decode(files[ResolvePath(filename)], encoding)
    IN  IF e # NoError THEN Raise(e)
        ELSE IF data[1] THEN Return(data[2])
        ELSE Raise(Error("UnicodeDecodeError", <<encoding>>))

\* FileStorageDriver.get_read_stream: codecs.open(filename, 'rb') with no
\* encoding is the builtin open: a file object at position 0
FileStorageDriver_get_read_stream(files, dirs, drv, dag_id, task_id, execution_date) ==
    LET filename == FileStorageDriver_get_filename(drv, dag_id, task_id, execution_date)
        e == OpenForReading(files, dirs, filename)
    IN  IF e # NoError THEN Raise(e)
        ELSE Return(FileObject(files[ResolvePath(filename)], 0))

\* FileStorageDriver.check_or_create_dir: os.makedirs unless the path
\* exists.  [err |-> the OSError raised or NoError, dirs |-> the directories]
check_or_create_dir(files, dirs, dir) ==
    LET rp == ResolvePath(dir)
    IN  IF PathExists(files, dirs, dir) THEN [err |-> NoError, dirs |-> dirs]
        ELSE IF dir = <<>>
        THEN [err |-> Error("OSError", <<"[Errno 2] No such file or directory: ">>),
              dirs |-> dirs]
        ELSE IF \E a \in Ancestors(rp) : a \in DOMAIN files
        THEN [err |-> Error("OSError", <<"[Errno 20] Not a directory: ">> \o dir),
              dirs |-> dirs]
        ELSE [err |-> NoError, dirs |-> dirs \cup Ancestors(rp)]

\* os.makedirs(dir): the directory and those above it that are missing are
\* made; OSError when the directory itself exists
makedirs(files, dirs, dir) ==
    LET rp == ResolvePath(dir)
    IN  IF dir = <<>>
        THEN [err |-> Error("OSError", <<"[Errno 2] No such file or directory: ">>),
              dirs |-> dirs]
        ELSE IF PathExists(files, dirs, dir)
        THEN [err |-> Error("OSError", <<"[Errno 17] File exists: ">> \o dir), dirs |-> dirs]
        ELSE IF \E a \in Ancestors(rp) : a \in DOMAIN files
        THEN [err |-> Error("OSError", <<"[Errno 20] Not a directory: ">> \o dir),
              dirs |-> dirs]
        ELSE [err |-> NoError, dirs |-> dirs \cup Ancestors(rp)]

\* open(filename, "a"): the file is created, and kept when it exists
OpenForWriting_Append(files, rp) ==
    IF rp \in DOMAIN files THEN files ELSE Put(files, rp, <<>>)

\* open(filename, "w"): the file is created, or truncated when it exists
OpenForWriting(files, rp) == Put(files, rp, <<>>)

\* f.write(data) on the file just opened
FileWriteData(files, rp, data) == Put(files, rp, files[rp] \o data)

\* FileStorageDriver.write: [res, files, dirs]
FileStorageDriver_write(files, dirs, drv, dag_id, task_id, execution_date, data) ==
    LET filename == FileStorageDriver_get_filename(drv, dag_id, task_id, execution_date)
        rp == ResolvePath(filename)
        made == check_or_create_dir(files, dirs, PathDirname(filename))
    IN  IF made.err # NoError
        THEN [res |-> Raise(made.err), files |-> files, dirs |-> made.dirs]
        ELSE IF rp \in made.dirs
        THEN [res |-> Raise(Error("IOError", <<"[Errno 21] Is a directory: ">> \o filename)),
              files |-> files, dirs |-> made.dirs]
        ELSE IF ResolvePath(PathDirname(filename)) \notin made.dirs
        THEN [res |-> Raise(Error("IOError", <<"[Errno 20] Not a directory: ">> \o filename)),
              files |-> files, dirs |-> made.dirs]
        ELSE [res |-> Return(None),
              files |-> FileWriteData(OpenForWriting(files, rp), rp, data),
              dirs |-> made.dirs]

\* FileStorageDriver.write_from_stream reading the stream from its start
FileStorageDriver_write_from_stream_FromStart(files, dirs, drv, dag_id, task_id, execution_date, stream) ==
    FileStorageDriver_write(files, dirs, drv, dag_id, task_id, execution_date,
                            StreamRead(StreamSeek(stream, 0)))
        @@ [stream |-> StreamAfterRead(stream)]

\* FileStorageDriver.write_from_stream: [res, files, dirs, stream], the
\* stream as the call leaves it
FileStorageDriver_write_from_stream(files, dirs, drv, dag_id, task_id, execution_date, stream) ==
    FileStorageDriver_write(files, dirs, drv, dag_id, task_id, execution_date,
                            StreamRead(stream))
        @@ [stream |-> StreamAfterRead(stream)]

\* FileStorageDriver.list_filenames_in_path: the files of the first
\* directory os.walk yields; nothing when path is no directory
FileStorageDriver_list_filenames_in_path(files, dirs, path) ==
    LET rp == ResolvePath(path)
    IN  IF rp \notin dirs THEN <<>>
        ELSE SeqOfSet({f[Len(f)] : f \in {g \in DOMAIN files :
                          Len(g) = Len(rp) + 1 /\ SubSeq(g, 1, Len(rp)) = rp}})

-----------------------------------------------------------------------------
(* fileflow/storage_drivers/s3_storage_driver.py                           *)

S3StorageDriver_get_key_name(dag_id, task_id, execution_date) ==
    dag_id \o <<"/">> \o task_id \o <<"/">> \o execution_date_string(execution_date)

S3StorageDriver_get_filename_PathOnly(drv, dag_id, task_id, execution_date) ==
    <<"s", "3", ":", "/", "/">> \o drv.bucket_name \o <<"/">> \o dag_id \o <<"/">> \o task_id

S3StorageDriver_get_filename(drv, dag_id, task_id, execution_date) ==
    <<"s","3",":","/","/">> \o drv.bucket_name \o <<"/">>
        \o S3StorageDriver_get_key_name(dag_id, task_id, execution_date)

S3StorageDriver_get_path(drv, dag_id, task_id) ==
    <<"s","3",":","/","/">> \o drv.bucket_name \o <<"/">> \o dag_id \o <<"/">> \o task_id

\* KeyDoesNotExist with a message that does not say which bucket
KeyDoesNotExist_NoBucket(key_name, bucket_name) ==
    Error("StorageDriverError", <<"S3 key named ">> \o key_name \o <<" does not exist.">>)

\* the StorageDriverError read and get_read_stream raise
KeyDoesNotExist(key_name, bucket_name) ==
    Error("StorageDriverError",
          <<"S3 key named ">> \o key_name \o <<" in bucket ">> \o bucket_name
              \o <<" does not exist.">>)

\* S3StorageDriver.read: bucket.get_key is None when there is no such key
S3StorageDriver_read(bk, drv, dag_id, task_id, execution_date, encoding) ==
    LET key_name == S3StorageDriver_get_key_name(dag_id, task_id, execution_date)
        bucket == bk[drv.bucket_name]
        data == Decode(bucket[key_name].data, encoding)
    IN  IF key_name \in DOMAIN bucket
        THEN (IF data[1] THEN Return(data[2])
              ELSE Raise(Error("UnicodeDecodeError", <<encoding>>)))
        ELSE Raise(KeyDoesNotExist(key_name, drv.bucket_name))

\* S3StorageDriver.get_read_stream without the seek back to the start
S3StorageDriver_get_read_stream_NoSeek(bk, drv, dag_id, task_id, execution_date) ==
    LET key_name == S3StorageDriver_get_key_name(dag_id, task_id, execution_date)
        bucket == bk[drv.bucket_name]
        temp_file_stream == StreamWrite(FileObject(<<>>, 0), bucket[key_name].data)
    IN  IF key_name \in DOMAIN bucket
        THEN Return(temp_file_stream)
        ELSE Raise(KeyDoesNotExist(key_name, drv.bucket_name))

\* S3StorageDriver.get_read_stream: the key's content is written to a new
\* temporary file, which is then sought back to its start
S3StorageDriver_get_read_stream(bk, drv, dag_id, task_id, execution_date) ==
    LET key_name == S3StorageDriver_get_key_name(dag_id, task_id, execution_date)
        bucket == bk[drv.bucket_name]
        temp_file_stream == StreamWrite(FileObject(<<>>, 0), bucket[key_name].data)
    IN  IF key_name \in DOMAIN bucket
        THEN Return(StreamSeek(temp_file_stream, 0))
        ELSE Raise(KeyDoesNotExist(key_name, drv.bucket_name))

\* S3StorageDriver.get_or_create_key: the boto Key object, which carries the
\* stored object's content type when the key exists and boto's default
\* when it is new, and no metadata yet
get_or_create_key(bucket, key_name) ==
    [name |-> key_name,
     content_type |-> IF key_name \in DOMAIN bucket
                      THEN bucket[key_name].content_type ELSE DefaultContentType,
     metadata |-> None]

\* key.set_metadata('Content-Type', content_type)
KeySetMetadata(key, content_type) == [key EXCEPT !.metadata = content_type]

\* key.set_contents_from_string(data): one PUT of the whole payload, its
\* Content-Type header the key's metadata when set and the key's content
\* type otherwise; the new object has the bucket's default ACL
KeySetContents(bucket, key, data) ==
    Put(bucket, key.name,
        S3Object(data, IF key.metadata # None THEN key.metadata ELSE key.content_type,
                 "default"))

\* key.set_acl(acl)
KeySetAcl(bucket, key, acl) ==
    Put(bucket, key.name, [bucket[key.name] EXCEPT !.acl = acl])

\* S3StorageDriver.write: the buckets after the call
S3StorageDriver_write(bk, drv, dag_id, task_id, execution_date, data, content_type) ==
    LET key_name == S3StorageDriver_get_key_name(dag_id, task_id, execution_date)
        bucket == bk[drv.bucket_name]
        key0 == get_or_create_key(bucket, key_name)
        key == IF content_type # None THEN KeySetMetadata(key0, content_type) ELSE key0
    IN  [bk EXCEPT ![drv.bucket_name] =
            KeySetAcl(KeySetContents(bucket, key, data), key, "private")]

\* S3StorageDriver.write_from_stream: [buckets, stream]
S3StorageDriver_write_from_stream(bk, drv, dag_id, task_id, execution_date, stream, content_type) ==
    LET str == StreamRead(stream)
    IN  [buckets |-> S3StorageDriver_write(bk, drv, dag_id, task_id, execution_date,
                                           str, content_type),
         stream |-> StreamAfterRead(stream)]

\* S3StorageDriver.list_filenames_in_path with the prefix taken as it is
S3StorageDriver_list_filenames_in_path_AsGiven(bk, drv, path) ==
    LET prefix == DropFirst(path, Len(<<"s","3",":","/","/">> \o drv.bucket_name \o <<"/">>))
        results == {k \in DOMAIN bk[drv.bucket_name] : StartsWith(k, prefix)}
    IN  SeqOfSet({DropFirst(k, Len(prefix)) : k \in results})

\* S3StorageDriver.list_filenames_in_path
S3StorageDriver_list_filenames_in_path(bk, drv, path) ==
    LET prefix0 == DropFirst(path, Len(<<"s","3",":","/","/">> \o drv.bucket_name \o <<"/">>))
        prefix == RStrip(prefix0, "/") \o <<"/">>
        results == {k \in DOMAIN bk[drv.bucket_name] : StartsWith(k, prefix)}
    IN  SeqOfSet({DropFirst(k, Len(prefix)) : k \in results})

-----------------------------------------------------------------------------
(* fileflow/storage_drivers/storage_driver.py: the interface, dispatched   *)
(* on the class of the driver                                              *)

get_filename(drv, dag_id, task_id, execution_date) ==
    IF drv.kind = "file"
    THEN FileStorageDriver_get_filename(drv, dag_id, task_id, execution_date)
    ELSE S3StorageDriver_get_filename(drv, dag_id, task_id, execution_date)

get_path(drv, dag_id, task_id) ==
    IF drv.kind = "file"
    THEN FileStorageDriver_get_path(drv, dag_id, task_id)
    ELSE S3StorageDriver_get_path(drv, dag_id, task_id)

read(files, dirs, bk, drv, dag_id, task_id, execution_date, encoding) ==
    IF drv.kind = "file"
    THEN FileStorageDriver_read(files, dirs, drv, dag_id, task_id, execution_date, encoding)
    ELSE S3StorageDriver_read(bk, drv, dag_id, task_id, execution_date, encoding)

get_read_stream(files, dirs, bk, drv, dag_id, task_id, execution_date) ==
    IF drv.kind = "file"
    THEN FileStorageDriver_get_read_stream(files, dirs, drv, dag_id, task_id, execution_date)
    ELSE S3StorageDriver_get_read_stream(bk, drv, dag_id, task_id, execution_date)

\* [res, files, dirs, buckets]: the file driver ignores content_type
write(files, dirs, bk, drv, dag_id, task_id, execution_date, data, content_type) ==
    IF drv.kind = "file"
    THEN FileStorageDriver_write(files, dirs, drv, dag_id, task_id, execution_date, data)
             @@ [buckets |-> bk]
    ELSE [res |-> Return(None), files |-> files, dirs |-> dirs,
          buckets |-> S3StorageDriver_write(bk, drv, dag_id, task_id, execution_date,
                                            data, content_type)]

\* [res, files, dirs, buckets, stream]: the file driver ignores content_type
write_from_stream(files, dirs, bk, drv, dag_id, task_id, execution_date, stream, content_type) ==
    IF drv.kind = "file"
    THEN FileStorageDriver_write_from_stream(files, dirs, drv, dag_id, task_id,
                                             execution_date, stream)
             @@ [buckets |-> bk]
    ELSE [res |-> Return(None), files |-> files, dirs |-> dirs]
             @@ S3StorageDriver_write_from_stream(bk, drv, dag_id, task_id, execution_date,
                                                  stream, content_type)

list_filenames_in_path(files, dirs, bk, drv, path) ==
    IF drv.kind = "file"
    THEN FileStorageDriver_list_filenames_in_path(files, dirs, path)
    ELSE S3StorageDriver_list_filenames_in_path(bk, drv, path)

\* StorageDriver.list_filenames_in_task
list_filenames_in_task(files, dirs, bk, drv, dag_id, task_id) ==
    list_filenames_in_path(files, dirs, bk, drv, get_path(drv, dag_id, task_id))

-----------------------------------------------------------------------------
(* Bounds and inputs                                                       *)

\* write calls per behaviour
MaxWrites == 2

\* get_storage_driver calls per behaviour
MaxDrivers == 2

Date(year, month, day, hour) == [year |-> year, month |-> month, day |-> day, hour |-> hour]

DagIds == {<<"a">>}

\* a task id may hold a separator: the drivers take any str
TaskIds == {<<"b">>, <<"b","/","c">>}

\* a day at noon, and the day after at midnight
ExecutionDates == {Date(2024, 3, 1, 12), Date(2024, 3, 2, 0)}

\* byte strings: 'ab', 'a', UTF-8 for U+00E4, and a byte that is no UTF-8
Payloads == {<<97, 98>>, <<97>>, <<195, 164>>, <<164>>}

\* write(..., content_type='text/plain')
DefaultWriteContentType == <<"text/plain">>

Encodings == {"utf-8", "latin-1"}

\* the arguments of get_storage_driver, each one possibly omitted
StorageTypes == {None, <<"f","i","l","e">>, <<"s","3">>, <<"f","t","p">>}
StoragePrefixes == {None, <<"/","d","a","t","a">>}
ValidEnvironments == {<<"p","r","o","d","u","c","t","i","o","n">>, <<"q","a">>, <<"d","e","v","e","l","o","p","m","e","n","t">>, <<"t","e","s","t">>}
Environments == ValidEnvironments \cup {None, <<>>, <<"s","t","a","g","i","n","g">>}
AccessKeyIds == {None, <<"K">>}
SecretAccessKeys == {None, <<"S">>}
BucketNames == {None, <<"a","r","t","i","f","a","c","t","s">>}

Args(storage_type, storage_prefix, environment, key_id, secret_key, bucket_name) ==
    [storage_type |-> storage_type, storage_prefix |-> storage_prefix,
     environment |-> environment, aws_access_key_id |-> key_id,
     aws_secret_access_key |-> secret_key, aws_bucket_name |-> bucket_name]

FactoryArgs ==
    {Args(t, p, e, k, s, b) : t \in StorageTypes, p \in StoragePrefixes,
        e \in Environments, k \in AccessKeyIds, s \in SecretAccessKeys, b \in BucketNames}

\* the configurations the module body can leave behind: airflow.cfg with no
\* [fileflow] options or with a full S3 set-up, the AWS environment
\* variables set or not, boto credentials present or not
NoOptions == <<>>
S3Options ==
    [storage_type |-> <<"s","3">>, environment |-> <<"q","a">>,
     aws_bucket_name |-> <<"a","r","t","i","f","a","c","t","s">>,
     aws_access_key_id |-> <<"K">>, aws_secret_access_key |-> <<"S">>]
Credentials(key_id, secret_key) ==
    [aws_access_key_id |-> key_id, aws_secret_access_key |-> secret_key]

Configurations ==
    {ApplyDefaults(o, e, b) :
        o \in {NoOptions, S3Options},
        e \in {Credentials(<<>>, <<>>), Credentials(<<"K">>, <<"S">>)},
        b \in {Credentials(None, None), Credentials(<<"K">>, <<"S">>)}}

\* the buckets that exist
BucketSets == {{}, {<<"a","r","t","i","f","a","c","t","s">>, <<"a","r","t","i","f","a","c","t","s","q","a">>}}

-----------------------------------------------------------------------------
(* State                                                                   *)

\* the driver held, the call that constructed it, the calls made, and
\* whether a write was made through this driver
NoDriverInstance == [obj |-> NoDriver, instance |-> 0, calls |-> 0, wrote |-> FALSE]
NoCall == [op |-> "none"]
NoRunner == [constructed |-> FALSE]

\* get_storage_driver(**args): the caller holds the driver it returns
GetStorageDriver(args) ==
    /\ LET call == get_storage_driver(args, conf, buckets)
       IN  /\ last' = [op |-> "get_storage_driver", args |-> args] @@ call
           /\ driver' = IF call.res.ok
                        THEN [obj |-> call.res.val, instance |-> driver.calls + 1,
                              calls |-> driver.calls + 1, wrote |-> FALSE]
                        ELSE [driver EXCEPT !.calls = driver.calls + 1]
    /\ UNCHANGED <<conf, fsFiles, fsDirs, buckets, written, nwrites, runner>>

FactoryInit ==
    /\ conf \in Configurations
    /\ buckets \in {[b \in B |-> <<>>] : B \in BucketSets}
    /\ fsFiles = <<>>
    /\ fsDirs = {}
    /\ driver = NoDriverInstance
    /\ last = NoCall
    /\ written = <<>>
    /\ nwrites = 0
    /\ runner = NoRunner

\* one call per behaviour: what a call does depends on nothing a call changes
FactoryNext == last.op = "none" /\ \E args \in FactoryArgs : GetStorageDriver(args)

FactorySpec == FactoryInit /\ [][FactoryNext]_vars

-----------------------------------------------------------------------------
(* The storage drivers at work: Spec                                       *)

\* the two deployments the drivers are exercised in: airflow.cfg selects
\* the local file system under /data, or S3 in the 'qa' environment
FileOptions ==
    [storage_type |-> <<"f","i","l","e">>, storage_prefix |-> <<"/","d","a","t","a">>,
     aws_access_key_id |-> <<"K">>, aws_secret_access_key |-> <<"S">>]

Deployments ==
    {ApplyDefaults(o, Credentials(<<>>, <<>>), Credentials(None, None)) :
        o \in {FileOptions, S3Options}}

\* get_storage_driver() with every argument omitted, as the task side calls it
NoArgs == Args(None, None, None, None, None, None)

\* a call that only reads was made.  It changes nothing but `last`, so the
\* calls after it reach no state of the media that is not reached without
\* it: a behaviour ends with it.
Observed == last.op \in {"read", "get_read_stream", "list_filenames_in_task"}

\* a driver is constructed; the caller drops the one it held
Construct ==
    /\ ~Observed
    /\ driver.calls < MaxDrivers
    /\ GetStorageDriver(NoArgs)

\* what the history keeps of the last successful write to a locator: the
\* payload, and the length of the longest payload ever written to the
\* locator
Written(data, longest) == [data |-> data, longest |-> longest]

Record(w, locator, data) ==
    IF locator \in DOMAIN w /\ w[locator].longest > Len(data)
    THEN Put(w, locator, Written(data, w[locator].longest))
    ELSE Put(w, locator, Written(data, Len(data)))

\* the arguments of a call that names a task instance
TaskArgs(dag_id, task_id, execution_date) ==
    [dag_id |-> dag_id, task_id |-> task_id, execution_date |-> execution_date]

\* driver.write(dag_id, task_id, execution_date, data, content_type)
Write(dag_id, task_id, execution_date, data, content_type) ==
    /\ ~Observed
    /\ driver.obj.kind # "none"
    /\ nwrites < MaxWrites
    /\ LET w == write(fsFiles, fsDirs, buckets, driver.obj,
                      dag_id, task_id, execution_date, data, content_type)
       IN  /\ fsFiles' = w.files
           /\ fsDirs' = w.dirs
           /\ buckets' = w.buckets
           /\ last' = [op |-> "write", instance |-> driver.instance,
                       args |-> TaskArgs(dag_id, task_id, execution_date),
                       data |-> data, content_type |-> content_type, res |-> w.res]
           /\ written' = IF w.res.ok
                         THEN Record(written,
                                     get_filename(driver.obj, dag_id, task_id, execution_date),
                                     data)
                         ELSE written
    /\ nwrites' = nwrites + 1
    /\ driver' = [driver EXCEPT !.wrote = TRUE]
    /\ UNCHANGED <<conf, runner>>

\* driver.read(dag_id, task_id, execution_date, encoding)
Read(dag_id, task_id, execution_date, encoding) ==
    /\ ~Observed
    /\ driver.obj.kind # "none"
    /\ last' = [op |-> "read", instance |-> driver.instance,
                args |-> TaskArgs(dag_id, task_id, execution_date),
                encoding |-> encoding,
                res |-> read(fsFiles, fsDirs, buckets, driver.obj,
                             dag_id, task_id, execution_date, encoding)]
    /\ fsFiles' = IF driver.obj.kind = "file"
                  THEN OpenedForReading(fsFiles, fsDirs,
                                        get_filename(driver.obj, dag_id, task_id,
                                                     execution_date))
                  ELSE fsFiles
    /\ UNCHANGED <<conf, fsDirs, buckets, driver, written, nwrites, runner>>

\* driver.get_read_stream(dag_id, task_id, execution_date)
GetReadStream(dag_id, task_id, execution_date) ==
    /\ ~Observed
    /\ driver.obj.kind # "none"
    /\ last' = [op |-> "get_read_stream", instance |-> driver.instance,
                args |-> TaskArgs(dag_id, task_id, execution_date),
                res |-> get_read_stream(fsFiles, fsDirs, buckets, driver.obj,
                                        dag_id, task_id, execution_date)]
    /\ fsFiles' = IF driver.obj.kind = "file"
                  THEN OpenedForReading(fsFiles, fsDirs,
                                        get_filename(driver.obj, dag_id, task_id,
                                                     execution_date))
                  ELSE fsFiles
    /\ UNCHANGED <<conf, fsDirs, buckets, driver, written, nwrites, runner>>

\* driver.list_filenames_in_task(dag_id, task_id)
ListFilenamesInTask(dag_id, task_id) ==
    /\ ~Observed
    /\ driver.obj.kind # "none"
    /\ last' = [op |-> "list_filenames_in_task", instance |-> driver.instance,
                args |-> [dag_id |-> dag_id, task_id |-> task_id],
                res |-> Return(list_filenames_in_task(fsFiles, fsDirs, buckets, driver.obj,
                                                      dag_id, task_id))]
    /\ UNCHANGED <<conf, fsFiles, fsDirs, buckets, driver, written, nwrites, runner>>

\* nothing stored yet, the bucket of the 'qa' environment exists
Init ==
    /\ conf \in Deployments
    /\ buckets = [b \in {<<"a","r","t","i","f","a","c","t","s","q","a">>} |-> <<>>]
    /\ fsFiles = <<>>
    /\ fsDirs = {}
    /\ driver = NoDriverInstance
    /\ last = NoCall
    /\ written = <<>>
    /\ nwrites = 0
    /\ runner = NoRunner

Next ==
    \/ Construct
    \/ \E d \in DagIds, t \in TaskIds, e \in ExecutionDates, data \in Payloads :
          Write(d, t, e, data, DefaultWriteContentType)
    \/ \E d \in DagIds, t \in TaskIds, e \in ExecutionDates, enc \in Encodings :
          Read(d, t, e, enc)
    \/ \E d \in DagIds, t \in TaskIds, e \in ExecutionDates : GetReadStream(d, t, e)
    \/ \E d \in DagIds, t \in TaskIds : ListFilenamesInTask(d, t)

Spec == Init /\ [][Next]_vars

-----------------------------------------------------------------------------
(* The drivers: claims C1 to C3, C8 and C9, under Spec                     *)

\* the locator of the key the last call named, on the driver that made it
LastLocator ==
    get_filename(driver.obj, last.args.dag_id, last.args.task_id, last.args.execution_date)

\* the last call named a key that was written, or one that never was
LastWritten == LastLocator \in DOMAIN written
LastPayload == written[LastLocator].data

\* the bytes the medium holds at a locator
Stored(locator) ==
    IF driver.obj.kind = "file" THEN fsFiles[ResolvePath(locator)]
    ELSE buckets[driver.obj.bucket_name][
             DropFirst(locator, Len(<<"s","3",":","/","/">> \o driver.obj.bucket_name \o <<"/">>))].data

IsAscii(data) == \A i \in DOMAIN data : data[i] < 128

\* how often name occurs in a list
Count(list, name) == Cardinality({i \in DOMAIN list : list[i] = name})

\* what read returns for a stored payload: its decoding in the encoding
\* asked for, or UnicodeDecodeError when it has none
ReadsAs(res, data, encoding) ==
    LET text == Decode(data, encoding)
    IN  IF text[1] THEN res.ok /\ res.val = text[2]
        ELSE ~res.ok /\ res.err.type = "UnicodeDecodeError"

\* C1 as claimed: a read (with the default encoding) of a key that was
\* written returns exactly the payload of the last write to it.
C1_AsClaimed ==
    (last.op = "read" /\ last.encoding = "utf-8" /\ LastWritten) =>
        last.res.ok /\ last.res.val = LastPayload

\* C1: after a write to a key, and no later write to it, a read of the key
\* on the same driver or on one constructed later returns the payload
\* decoded in the read's encoding, which is the payload itself when the
\* payload is ASCII; it raises UnicodeDecodeError when the payload has no
\* decoding.
C1_RoundTrip ==
    (last.op = "read" /\ LastWritten) =>
        /\ ReadsAs(last.res, LastPayload, last.encoding)
        /\ IsAscii(LastPayload) => (last.res.ok /\ last.res.val = LastPayload)

\* a driver that wrote nothing, constructed after the write, read the payload
C1_Witness ==
    /\ last.op = "read"
    /\ LastWritten
    /\ ~driver.wrote
    /\ last.res.ok
    /\ last.res.val = LastPayload

\* C2 as claimed: after the writes to a key, read returns exactly the last
\* payload, and the key is listed exactly once.
C2_AsClaimed ==
    /\ (last.op = "read" /\ last.encoding = "utf-8" /\ LastWritten) =>
           (last.res.ok /\ last.res.val = LastPayload)
    /\ last.op = "list_filenames_in_task" =>
           \A e \in ExecutionDates :
               get_filename(driver.obj, last.args.dag_id, last.args.task_id, e)
                       \in DOMAIN written =>
                   Count(last.res.val, execution_date_string(e)) = 1

\* C2: after any sequence of writes to a key the medium holds exactly the
\* payload of the last one, nothing of an earlier payload remaining: read
\* returns the decoding of exactly that payload (the payload itself when
\* it is ASCII), and the key is listed exactly once in its task.
C2_Overwrite ==
    /\ driver.obj.kind # "none" =>
           \A locator \in DOMAIN written : Stored(locator) = written[locator].data
    /\ (last.op = "read" /\ LastWritten) =>
           /\ ReadsAs(last.res, LastPayload, last.encoding)
           /\ IsAscii(LastPayload) => (last.res.ok /\ last.res.val = LastPayload)
    /\ last.op = "list_filenames_in_task" =>
           \A e \in ExecutionDates :
               get_filename(driver.obj, last.args.dag_id, last.args.task_id, e)
                       \in DOMAIN written =>
                   Count(last.res.val, execution_date_string(e)) = 1

\* a key written twice, the second payload the shorter, read back
C2_Witness ==
    /\ last.op = "read"
    /\ LastWritten
    /\ written[LastLocator].longest > Len(LastPayload)
    /\ last.res.ok
    /\ last.res.val = LastPayload

\* C3 as claimed: list_filenames_in_task returns exactly the date strings
\* of the run dates written for that dag id and task id.
C3_AsClaimed ==
    last.op = "list_filenames_in_task" =>
        Range(last.res.val) =
            {execution_date_string(e) : e \in
                {x \in ExecutionDates :
                    get_filename(driver.obj, last.args.dag_id, last.args.task_id, x)
                        \in DOMAIN written}}

\* C22 as claimed: the names a listing returns hold no separator, and each
\* is the last segment of a locator written directly under the path
\* listed.
C22_AsClaimed ==
    last.op = "list_filenames_in_task" =>
        \A name \in Range(last.res.val) :
            /\ "/" \notin Range(name)
            /\ get_path(driver.obj, last.args.dag_id, last.args.task_id)
                    \o <<"/">> \o name \in DOMAIN written

\* C29 as claimed: list_filenames_in_task for a dag id and a task id that
\* nothing was ever written for returns the empty list.
C29_AsClaimed ==
    (/\ last.op = "list_filenames_in_task"
     /\ \A e \in ExecutionDates :
            get_filename(driver.obj, last.args.dag_id, last.args.task_id, e)
                \notin DOMAIN written) =>
        /\ last.res.ok
        /\ last.res.val = <<>>

\* the error of a read of a key that was never written
NotFound(res) ==
    /\ ~res.ok
    /\ IF driver.obj.kind = "s3"
       THEN /\ res.err.type = "StorageDriverError"
            /\ Contains(res.err.message,
                        S3StorageDriver_get_key_name(last.args.dag_id, last.args.task_id,
                                                     last.args.execution_date))
            /\ Contains(res.err.message, driver.obj.bucket_name)
       ELSE /\ res.err.type = "IOError"
            /\ res.err.message = <<"[Errno 2] No such file or directory: ">> \o LastLocator

\* C8: a read of a key that was never written raises a not-found error
\* and leaves the media as they were: on S3 a StorageDriverError whose
\* message holds the key name and the bucket name, on the file system the
\* IOError "No such file or directory" for the derived path.
C8_ReadNotFound ==
    [][(last'.op = "read" /\ ~LastWritten') =>
           (NotFound(last.res)' /\ UNCHANGED <<fsFiles, fsDirs, buckets, written>>)]_vars

\* a key was read on S3 that was never written, after another key was
C8_Witness ==
    /\ last.op = "read"
    /\ ~LastWritten
    /\ nwrites > 0
    /\ driver.obj.kind = "s3"
    /\ last.res.err.type = "StorageDriverError"

\* C9 as claimed: get_read_stream succeeds exactly when read of the key
\* succeeds, and then the stream is at 0 and yields the last payload.
C9_AsClaimed ==
    last.op = "get_read_stream" =>
        /\ last.res.ok <=>
               read(fsFiles, fsDirs, buckets, driver.obj, last.args.dag_id,
                    last.args.task_id, last.args.execution_date, "utf-8").ok
        /\ last.res.ok =>
               (last.res.val.pos = 0 /\ StreamRead(last.res.val) = LastPayload)

\* C9: get_read_stream fails exactly when the key does not exist, with the
\* not-found error read raises for it; otherwise it returns an open stream
\* at position 0 that yields the whole payload last written, also for a
\* payload that read cannot decode.
C9_ReadStream ==
    last.op = "get_read_stream" =>
        IF LastWritten
        THEN /\ last.res.ok
             /\ last.res.val.pos = 0
             /\ ~last.res.val.closed
             /\ StreamRead(last.res.val) = LastPayload
        ELSE /\ NotFound(last.res)
             /\ last.res = read(fsFiles, fsDirs, buckets, driver.obj, last.args.dag_id,
                                last.args.task_id, last.args.execution_date, "utf-8")

\* a stream was returned on S3 for a payload that read cannot decode
C9_Witness ==
    /\ last.op = "get_read_stream"
    /\ driver.obj.kind = "s3"
    /\ last.res.ok
    /\ StreamRead(last.res.val) = <<164>>
    /\ ~read(fsFiles, fsDirs, buckets, driver.obj, last.args.dag_id,
             last.args.task_id, last.args.execution_date, "utf-8").ok

\* the S3 key of the task instance the last call named
LastKeyName ==
    S3StorageDriver_get_key_name(last.args.dag_id, last.args.task_id,
                                 last.args.execution_date)

\* C16: on the S3 driver get_filename is 's3://' + bucket_name + '/' + key
\* name and get_path is 's3://' + bucket_name + '/' + dag_id + '/' + task_id,
\* where bucket_name is the bucket name with the environment appended
\* ('artifacts' in 'qa': 'artifactsqa') and the key name dag_id + '/' +
\* task_id + '/' + YYYY-MM-DD is the key write stores at and read reads.
C16_S3Locator ==
    driver.obj.kind = "s3" =>
        /\ driver.obj.bucket_name = <<"a","r","t","i","f","a","c","t","s","q","a">>
        /\ get_filename(driver.obj, <<"a">>, <<"b">>, Date(2024, 3, 1, 12))
               = <<"s","3",":","/","/","a","r","t","i","f","a","c","t","s","q","a","/","a","/","b","/","2","0","2","4","-","0","3","-","0","1">>
        /\ \A d \in DagIds, t \in TaskIds :
               /\ get_path(driver.obj, d, t) =
                      <<"s","3",":","/","/">> \o driver.obj.bucket_name
                          \o <<"/">> \o d \o <<"/">> \o t
               /\ \A e \in ExecutionDates :
                      /\ S3StorageDriver_get_key_name(d, t, e) =
                             d \o <<"/">> \o t \o <<"/">> \o execution_date_string(e)
                      /\ get_filename(driver.obj, d, t, e) =
                             <<"s","3",":","/","/">> \o driver.obj.bucket_name \o <<"/">>
                                 \o S3StorageDriver_get_key_name(d, t, e)
        /\ (last.op = "write" /\ last.res.ok) =>
               /\ LastKeyName \in DOMAIN buckets[driver.obj.bucket_name]
               /\ buckets[driver.obj.bucket_name][LastKeyName].data = last.data
        /\ last.op = "read" =>
               IF LastKeyName \in DOMAIN buckets[driver.obj.bucket_name]
               THEN ReadsAs(last.res, buckets[driver.obj.bucket_name][LastKeyName].data,
                            last.encoding)
               ELSE ~last.res.ok

\* the key 'a/b/2024-03-01' of the bucket 'artifactsqa' was written and
\* then read through the driver
C16_Witness ==
    /\ driver.obj.kind = "s3"
    /\ last.op = "read"
    /\ last.res.ok
    /\ LastLocator = <<"s","3",":","/","/","a","r","t","i","f","a","c","t","s","q","a","/","a","/","b","/","2","0","2","4","-","0","3","-","0","1">>
    /\ <<"a","/","b","/","2","0","2","4","-","0","3","-","0","1">> \in DOMAIN buckets[<<"a","r","t","i","f","a","c","t","s","q","a">>]

-----------------------------------------------------------------------------
(* The factory: claims C4 to C7, under FactorySpec                         *)

\* a get_storage_driver call was made and every setting it needs resolved
FactoryCalled == last.op = "get_storage_driver" /\ last.resolved

FileType == <<"f","i","l","e">>
S3Type == <<"s","3">>
Production == <<"p","r","o","d","u","c","t","i","o","n">>

\* C4: for storage type 's3' the driver is constructed on the bucket name
\* unchanged when the environment is 'production', on the bucket name
\* immediately followed by the environment when it is 'qa', 'development'
\* or 'test'; for every other environment FileflowError is raised, no
\* connection is opened and no driver is constructed.
C4_EffectiveBucketName ==
    (FactoryCalled /\ last.settings.storage_type = S3Type) =>
        LET environment == last.settings.environment
            expected == IF environment = Production
                        THEN last.settings.aws_bucket_name
                        ELSE last.settings.aws_bucket_name \o environment
        IN  IF environment \in ValidEnvironments
            THEN /\ last.connected
                 /\ last.bucket = expected
                 /\ IF expected \in DOMAIN buckets
                    THEN /\ last.res.ok
                         /\ last.res.val.kind = "s3"
                         /\ last.res.val.bucket_name = expected
                    ELSE ~last.res.ok /\ last.res.err.type = "S3ResponseError"
            ELSE /\ ~last.res.ok
                 /\ last.res.err.type = "FileflowError"
                 /\ ~last.connected
                 /\ last.bucket = None

\* an S3 driver was returned for environment 'qa', on the suffixed bucket
C4_Witness ==
    /\ FactoryCalled
    /\ last.settings.storage_type = S3Type
    /\ last.settings.environment = <<"q","a">>
    /\ last.res.ok
    /\ last.res.val.bucket_name = <<"a","r","t","i","f","a","c","t","s","q","a">>

\* C23: get_storage_driver returns an S3 driver only when a bucket of the
\* effective bucket name exists, and the driver is on that bucket; when the
\* settings name S3 and a valid environment and no such bucket exists the
\* call raises and the caller holds no driver; the call creates no bucket
\* and changes none.
C23_BucketMustExist ==
    [][last'.op = "get_storage_driver" /\ last'.resolved =>
         /\ buckets' = buckets
         /\ last'.res.ok /\ last'.res.val.kind = "s3" =>
                /\ last'.bucket \in DOMAIN buckets
                /\ last'.res.val.bucket_name = last'.bucket
                /\ driver'.obj = last'.res.val
         /\ (/\ last'.settings.storage_type = S3Type
             /\ last'.settings.environment \in ValidEnvironments
             /\ last'.bucket \notin DOMAIN buckets) =>
                /\ ~last'.res.ok
                /\ last'.res.err.type = "S3ResponseError"
                /\ driver'.obj = NoDriver]_vars

\* the S3 driver was asked for in 'qa' where no bucket exists: the call
\* raised, and there is still no bucket
C23_Witness ==
    /\ FactoryCalled
    /\ last.settings.storage_type = S3Type
    /\ last.settings.environment = <<"q","a">>
    /\ last.connected
    /\ ~last.res.ok
    /\ driver.obj = NoDriver
    /\ DOMAIN buckets = {}

\* C30 as claimed: after the defaults are applied every option that
\* get_storage_driver looks up is among the [fileflow] options under its
\* name, and with nothing configured get_storage_driver() returns a
\* FileStorageDriver with prefix 'storage'.
C30_AsClaimed ==
    /\ \A i \in DOMAIN OptionNames : OptionNames[i] \in DOMAIN conf.options
    /\ (/\ last.op = "get_storage_driver"
        /\ last.args = NoArgs
        /\ \E boto \in {Credentials(None, None), Credentials(<<"K">>, <<"S">>)} :
               conf = ApplyDefaults(NoOptions, Credentials(<<>>, <<>>), boto)) =>
           /\ last.res.ok
           /\ last.res.val = FileStorageDriver(<<"s","t","o","r","a","g","e">>)

\* C5: a storage type other than 'file' and 's3' raises FileflowError whose
\* message names the type, and neither opens a connection nor constructs a
\* driver, whatever the other settings are.
C5_UnknownStorageType ==
    (FactoryCalled /\ last.settings.storage_type \notin {FileType, S3Type}) =>
        /\ ~last.res.ok
        /\ last.res.err.type = "FileflowError"
        /\ Contains(last.res.err.message, last.settings.storage_type)
        /\ ~last.connected
        /\ last.bucket = None

\* the call was made with type 'ftp' and S3 settings, and raised
C5_Witness ==
    /\ FactoryCalled
    /\ last.settings.storage_type = <<"f","t","p">>
    /\ last.settings.environment = <<"q","a">>
    /\ last.res.err.type = "FileflowError"

\* C6: storage type 'file' returns a FileStorageDriver whose prefix is the
\* storage prefix given (the configured one when none is given), for every
\* environment and all credentials, and opens no S3 connection.
C6_FileDriver ==
    (FactoryCalled /\ last.settings.storage_type = FileType) =>
        /\ last.res.ok
        /\ last.res.val.kind = "file"
        /\ last.res.val.prefix = last.settings.storage_prefix
        /\ (last.args.storage_prefix # None =>
                last.res.val.prefix = last.args.storage_prefix)
        /\ ~last.connected
        /\ last.bucket = None

\* a file driver was returned for an empty environment string
C6_Witness ==
    /\ FactoryCalled
    /\ last.args.storage_type = FileType
    /\ last.args.environment = <<>>
    /\ last.res.ok
    /\ last.res.val.prefix = <<"/","d","a","t","a">>

\* C7 as claimed: whatever the storage type, an environment outside the four
\* names makes the call raise and return no driver.
C7_AsClaimed ==
    (FactoryCalled /\ last.settings.environment \notin ValidEnvironments) =>
        ~last.res.ok

\* C7: an environment outside the four names is fatal for storage type 's3'
\* only: FileflowError is raised and nothing is constructed.  For 'file' the
\* environment is not looked at and a file driver is returned; for any other
\* type the FileflowError about the type is raised.
C7_InvalidEnvironment ==
    (FactoryCalled /\ last.settings.environment \notin ValidEnvironments) =>
        IF last.settings.storage_type = S3Type
        THEN /\ ~last.res.ok
             /\ last.res.err =
                    Error("FileflowError", <<"ENVIRONMENT setting is net set correctly">>)
             /\ ~last.connected
             /\ last.bucket = None
        ELSE IF last.settings.storage_type = FileType
        THEN last.res.ok /\ last.res.val.kind = "file"
        ELSE /\ ~last.res.ok
             /\ last.res.err.type = "FileflowError"
             /\ Contains(last.res.err.message, last.settings.storage_type)

\* an S3 call with environment 'staging' raised
C7_Witness ==
    /\ FactoryCalled
    /\ last.settings.storage_type = S3Type
    /\ last.settings.environment = <<"s","t","a","g","i","n","g">>
    /\ ~last.res.ok

-----------------------------------------------------------------------------
(* fileflow/task_runners/task_runner.py                                    *)

\* the context Airflow hands to a task: its data dependencies, its task
\* instance and its execution date
Context(data_dependencies, dag_id, task_id, execution_date) ==
    [data_dependencies |-> data_dependencies,
     ti |-> [dag_id |-> dag_id, task_id |-> task_id],
     execution_date |-> execution_date]

\* TaskRunner.__init__: the driver comes from get_storage_driver()
TaskRunner(context, storage) ==
    [constructed |-> TRUE,
     data_dependencies |-> context.data_dependencies,
     task_instance |-> context.ti,
     date |-> context.execution_date,
     storage |-> storage,
     patched |-> FALSE,
     reader |-> NoStream]

\* self.storage.get_read_stream: the driver's, or the stand-in put in its
\* place, which returns its stream as it is
storage_get_read_stream(files, dirs, bk, r, dag_id, task_id, execution_date) ==
    IF r.patched
    THEN Return(r.reader)
    ELSE get_read_stream(files, dirs, bk, r.storage, dag_id, task_id, execution_date)

\* self.data_dependencies[key]
KeyError(key) == Error("KeyError", key)

\* TaskRunner.get_upstream_stream without the seek
get_upstream_stream_NoSeek(files, dirs, bk, r, data_dependency_key, dag_id) ==
    LET d == IF dag_id = None THEN r.task_instance.dag_id ELSE dag_id
    IN  IF data_dependency_key \notin DOMAIN r.data_dependencies
        THEN Raise(KeyError(data_dependency_key))
        ELSE storage_get_read_stream(files, dirs, bk, r, d,
                                     r.data_dependencies[data_dependency_key], r.date)

\* TaskRunner.get_upstream_stream
get_upstream_stream(files, dirs, bk, r, data_dependency_key, dag_id) ==
    LET d == IF dag_id = None THEN r.task_instance.dag_id ELSE dag_id
        task_id == r.data_dependencies[data_dependency_key]
        stream == storage_get_read_stream(files, dirs, bk, r, d, task_id, r.date)
    IN  IF data_dependency_key \notin DOMAIN r.data_dependencies
        THEN Raise(KeyError(data_dependency_key))
        ELSE IF ~stream.ok THEN stream
        ELSE Return(StreamSeek(stream.val, 0))

\* a call the runner makes on its driver; encoding is None but for read
BackendCall(method, dag_id, task_id, execution_date, encoding) ==
    [method |-> method, dag_id |-> dag_id, task_id |-> task_id,
     execution_date |-> execution_date, encoding |-> encoding]

\* the calls TaskRunner.get_upstream_stream makes on its driver
get_upstream_stream_calls(r, data_dependency_key, dag_id) ==
    LET d == IF dag_id = None THEN r.task_instance.dag_id ELSE dag_id
    IN  IF data_dependency_key \notin DOMAIN r.data_dependencies
        THEN <<>>
        ELSE <<BackendCall("get_read_stream", d,
                           r.data_dependencies[data_dependency_key], r.date, None)>>

\* TaskRunner.get_input_filename with data_dependencies.get(key, own task id)
get_input_filename_DefaultTask(r, data_dependency, dag_id) ==
    LET d == IF dag_id = None THEN r.task_instance.dag_id ELSE dag_id
        task_id == IF data_dependency \in DOMAIN r.data_dependencies
                   THEN r.data_dependencies[data_dependency]
                   ELSE r.task_instance.task_id
    IN  [res |-> Return(get_filename(r.storage, d, task_id, r.date)),
         calls |-> <<BackendCall("get_filename", d, task_id, r.date, None)>>]

\* TaskRunner.get_input_filename: [res, calls], the calls those made on
\* the driver
get_input_filename(r, data_dependency, dag_id) ==
    LET d == IF dag_id = None THEN r.task_instance.dag_id ELSE dag_id
        task_id == r.data_dependencies[data_dependency]
    IN  IF data_dependency \notin DOMAIN r.data_dependencies
        THEN [res |-> Raise(KeyError(data_dependency)), calls |-> <<>>]
        ELSE [res |-> Return(get_filename(r.storage, d, task_id, r.date)),
              calls |-> <<BackendCall("get_filename", d, task_id, r.date, None)>>]

\* TaskRunner.read_upstream_file with the dag_id argument not looked at
read_upstream_file_OwnDag(files, dirs, bk, r, data_dependency_key, dag_id, encoding) ==
    LET d == r.task_instance.dag_id
        task_id == r.data_dependencies[data_dependency_key]
    IN  IF data_dependency_key \notin DOMAIN r.data_dependencies
        THEN [res |-> Raise(KeyError(data_dependency_key)), calls |-> <<>>]
        ELSE [res |-> read(files, dirs, bk, r.storage, d, task_id, r.date, encoding),
              calls |-> <<BackendCall("read", d, task_id, r.date, encoding)>>]

\* TaskRunner.read_upstream_file: [res, calls]
read_upstream_file(files, dirs, bk, r, data_dependency_key, dag_id, encoding) ==
    LET d == IF dag_id = None THEN r.task_instance.dag_id ELSE dag_id
        task_id == r.data_dependencies[data_dependency_key]
    IN  IF data_dependency_key \notin DOMAIN r.data_dependencies
        THEN [res |-> Raise(KeyError(data_dependency_key)), calls |-> <<>>]
        ELSE [res |-> read(files, dirs, bk, r.storage, d, task_id, r.date, encoding),
              calls |-> <<BackendCall("read", d, task_id, r.date, encoding)>>]

\* the ASCII codes of the characters the runner formats
Ord ==
    [c \in {"0", "1", "2", "3", "4", "5", "6", "7", "8", "9"} |->
        CHOOSE n \in 48..57 : Digit(n - 48) = c]
    @@ ("-" :> 45) @@ (":" :> 58) @@ ("T" :> 84) @@ ("R" :> 82) @@ ("U" :> 85) @@ ("N" :> 78)

\* str as the bytes of its ASCII encoding
Encode(str) == [i \in DOMAIN str |-> Ord[str[i]]]

\* Python objects: a str of ASCII bytes, a dict of one key with a str value
PyStr(value) == [type |-> "str", value |-> value]
PyDict(key, value) == [type |-> "dict", key |-> key, value |-> value]

\* json.dumps(data): "..." for a str, {"key": "..."} for a dict
JsonDumps(data) ==
    IF data.type = "str"
    THEN <<34>> \o data.value \o <<34>>
    ELSE <<123, 34>> \o data.key \o <<34, 58, 32, 34>> \o data.value.value \o <<34, 125>>

\* datetime.isoformat() of a time on the hour
IsoFormat(now) ==
    Encode(execution_date_string(now) \o <<"T">> \o ZeroPad(now.hour, 2)
               \o <<":", "0", "0", ":", "0", "0">>)

\* a pandas DataFrame of objects: its column names, which are strs, and its
\* rows of cells; a cell is a str, None or NaN
DataFrame(columns, rows) == [columns |-> columns, rows |-> rows]
Cell(value) == [is |-> "str", value |-> value]
NoneCell == [is |-> "None", value |-> <<>>]
NaNCell == [is |-> "NaN", value |-> <<>>]

\* the frames of the shape of data, each cell of data replaced
MapCells(data, Op(_)) ==
    DataFrame(data.columns,
              [i \in DOMAIN data.rows |->
                  [j \in DOMAIN data.rows[i] |-> Op(data.rows[i][j])]])

\* data.where(pd.notnull(data), None)
WhereNotNull(data) ==
    LET where(cell) == IF cell.is = "str" THEN cell ELSE NoneCell
    IN  MapCells(data, where)

\* data[data == text] = None
NoneWhereEqual(data, text) ==
    LET assign(cell) == IF cell.is = "str" /\ cell.value = text THEN NoneCell ELSE cell
    IN  MapCells(data, assign)

\* the text to_csv writes for a cell: str(None) for None
CellText(cell) == IF cell.is = "str" THEN cell.value ELSE <<78, 111, 110, 101>>

\* a field of csv output with every '"' in it doubled
RECURSIVE DoubleQuotes(_)
DoubleQuotes(value) ==
    IF value = <<>> THEN <<>>
    ELSE (IF Head(value) = 34 THEN <<34, 34>> ELSE <<Head(value)>>)
             \o DoubleQuotes(Tail(value))

\* CsvLine with the null cells written as empty fields
RECURSIVE CsvLine_EmptyNull(_)
CsvLine_EmptyNull(values) ==
    IF values = <<>> THEN <<10>>
    ELSE <<34>> \o (IF Head(values) = <<78, 111, 110, 101>> THEN <<>>
                    ELSE DoubleQuotes(Head(values))) \o <<34>>
             \o (IF Len(values) > 1 THEN <<44>> ELSE <<>>) \o CsvLine_EmptyNull(Tail(values))

\* one line of csv.QUOTE_ALL output
RECURSIVE CsvLine(_)
CsvLine(values) ==
    IF values = <<>> THEN <<10>>
    ELSE <<34>> \o DoubleQuotes(Head(values)) \o <<34>>
             \o (IF Len(values) > 1 THEN <<44>> ELSE <<>>) \o CsvLine(Tail(values))

RECURSIVE CsvLines(_)
CsvLines(rows) ==
    IF rows = <<>> THEN <<>>
    ELSE CsvLine([j \in DOMAIN Head(rows) |-> CellText(Head(rows)[j])])
             \o CsvLines(Tail(rows))

\* clean_and_write_dataframe_to_csv(data, filename=None): NaN is made None,
\* then the header line and the rows are written, every field quoted,
\* without the index
clean_and_write_dataframe_to_csv(data) ==
    CsvLine(data.columns) \o CsvLines(WhereNotNull(data).rows)

\* the texts pd.read_csv takes for NaN, quoted or not: '', '#N/A',
\* '#N/A N/A', '#NA', '-1.#IND', '-1.#QNAN', '-NaN', '-nan', '1.#IND',
\* '1.#QNAN', 'N/A', 'NA', 'NULL', 'NaN', 'nan'
NaValues ==
    {<<>>, <<35, 78, 47, 65>>, <<35, 78, 47, 65, 32, 78, 47, 65>>, <<35, 78, 65>>,
     <<45, 49, 46, 35, 73, 78, 68>>, <<45, 49, 46, 35, 81, 78, 65, 78>>,
     <<45, 78, 97, 78>>, <<45, 110, 97, 110>>, <<49, 46, 35, 73, 78, 68>>,
     <<49, 46, 35, 81, 78, 65, 78>>, <<78, 47, 65>>, <<78, 65>>, <<78, 85, 76, 76>>,
     <<78, 97, 78>>, <<110, 97, 110>>}

\* the records of a csv text as pd.read_csv(skipinitialspace=True) splits
\* them: state is where the tokenizer is ("start" of a field, in an
\* "unquoted" or a "quoted" field, or after a "quote" in a quoted field),
\* field and row are what it has of the field and of the record
RECURSIVE Tokenize(_, _, _, _, _)
Tokenize(s, state, field, row, rows) ==
    IF s = <<>>
    THEN IF state = "start" /\ row = <<>> THEN rows
         ELSE Append(rows, Append(row, field))
    ELSE LET c == Head(s)
             rest == Tail(s)
         IN  IF state = "quoted"
             THEN IF c = 34 THEN Tokenize(rest, "quote", field, row, rows)
                  ELSE Tokenize(rest, "quoted", Append(field, c), row, rows)
             ELSE IF c = 44
             THEN Tokenize(rest, "start", <<>>, Append(row, field), rows)
             ELSE IF c = 10
             THEN IF state = "start" /\ row = <<>>
                  THEN Tokenize(rest, "start", <<>>, <<>>, rows)
                  ELSE Tokenize(rest, "start", <<>>, <<>>, Append(rows, Append(row, field)))
             ELSE IF state = "start" /\ c = 32
             THEN Tokenize(rest, "start", <<>>, row, rows)
             ELSE IF state = "start" /\ c = 34
             THEN Tokenize(rest, "quoted", <<>>, row, rows)
             ELSE IF state = "quote" /\ c = 34
             THEN Tokenize(rest, "quoted", Append(field, c), row, rows)
             ELSE Tokenize(rest, "unquoted", Append(field, c), row, rows)

\* pd.read_csv(dtype=str, skipinitialspace=True): the first record is the
\* header, every field of the others a str, or NaN for a text of NaValues;
\* a text without a record has no columns to parse
read_csv(text) ==
    LET records == Tokenize(text, "start", <<>>, <<>>, <<>>)
        cell(value) == IF value \in NaValues THEN NaNCell ELSE Cell(value)
    IN  IF records = <<>>
        THEN Raise(Error("ValueError", <<"No columns to parse from file">>))
        ELSE Return(MapCells(DataFrame(Head(records), Tail(records)), cell))

\* read_and_clean_csv_to_dataframe: NaN is made None, then 'None', then ''
read_and_clean_csv_to_dataframe(text) ==
    LET data == read_csv(text)
    IN  IF ~data.ok THEN data
        ELSE Return(NoneWhereEqual(NoneWhereEqual(WhereNotNull(data.val),
                                                  <<78, 111, 110, 101>>), <<>>))

\* a writing call the runner makes on its driver; data is the payload, or
\* the stream for write_from_stream
WriteCall(method, dag_id, task_id, execution_date, data, content_type) ==
    [method |-> method, dag_id |-> dag_id, task_id |-> task_id,
     execution_date |-> execution_date, data |-> data, content_type |-> content_type]

\* TaskRunner.get_output_filename: [res, calls]
get_output_filename(r) ==
    [res |-> Return(get_filename(r.storage, r.task_instance.dag_id,
                                 r.task_instance.task_id, r.date)),
     calls |-> <<BackendCall("get_filename", r.task_instance.dag_id,
                             r.task_instance.task_id, r.date, None)>>]

\* TaskRunner.write_file: [res, files, dirs, buckets, calls]
write_file(files, dirs, bk, r, data, content_type) ==
    write(files, dirs, bk, r.storage, r.task_instance.dag_id, r.task_instance.task_id,
          r.date, data, content_type)
        @@ [calls |-> <<WriteCall("write", r.task_instance.dag_id,
                                  r.task_instance.task_id, r.date, data, content_type)>>]

\* TaskRunner.write_from_stream: [res, files, dirs, buckets, stream, calls]
TaskRunner_write_from_stream(files, dirs, bk, r, stream, content_type) ==
    write_from_stream(files, dirs, bk, r.storage, r.task_instance.dag_id,
                      r.task_instance.task_id, r.date, stream, content_type)
        @@ [calls |-> <<WriteCall("write_from_stream", r.task_instance.dag_id,
                                  r.task_instance.task_id, r.date, stream, content_type)>>]

\* TaskRunner.write_json with the content type left at write_file's default
write_json_PlainText(files, dirs, bk, r, data) ==
    write_file(files, dirs, bk, r, JsonDumps(data), <<"text/plain">>)

\* TaskRunner.write_json
write_json(files, dirs, bk, r, data) ==
    write_file(files, dirs, bk, r, JsonDumps(data), <<"application/json">>)

\* TaskRunner.write_pandas_csv
write_pandas_csv(files, dirs, bk, r, data) ==
    write_file(files, dirs, bk, r, clean_and_write_dataframe_to_csv(data), <<"text/csv">>)

\* TaskRunner.write_timestamp_file, at the time now
write_timestamp_file(files, dirs, bk, r, now) ==
    write_json(files, dirs, bk, r, PyDict(<<82, 85, 78>>, PyStr(IsoFormat(now))))

-----------------------------------------------------------------------------
(* Task runners at work: RunnerSpec                                        *)

\* the furthest offset a stream is left at
MaxPos == 3

DependencyKeys == {<<"dep_one">>, <<"dep_two">>}

\* no dependency, or 'dep_one' on task 'b'
DataDependencies == {<<>>, Put(<<>>, <<"dep_one">>, <<"b">>)}

\* the tasks of one DAG run share its execution date
RunDates == {Date(2024, 3, 1, 12)}

Contexts ==
    {Context(dd, d, t, e) :
        dd \in DataDependencies, d \in DagIds, t \in TaskIds, e \in RunDates}

\* what a stand-in for get_read_stream holds
ReaderContents == {<<97, 98, 99>>}

\* the content type given to write_file: left at its default, or none
RunnerContentTypes == {DefaultWriteContentType, None}

\* a stream holding 'ab', read up to the 'b'
RunnerStreams == {FileObject(<<97, 98>>, 1)}

\* the str 'a'
JsonObjects == {PyStr(<<97>>)}

\* one column 'a' with one row 'b'
DataFrames == {DataFrame(<<<<97>>>>, <<<<Cell(<<98>>)>>>>)}

\* the times write_timestamp_file is called at
Timestamps == {Date(2024, 3, 2, 9)}

\* the dag_id argument of the upstream calls: omitted, the task's own dag,
\* or another dag
UpstreamDagIds == DagIds \cup {<<"d">>, None}

\* what the tasks write: 'ab', and a byte that is no UTF-8
RunnerPayloads == {<<97, 98>>, <<164>>}

\* a call was made that changed nothing but `last`: the calls after it
\* reach no runner and no media that are not reached without it, and a
\* behaviour ends with it
RunnerObserved ==
    \/ last.op \in {"get_input_filename", "read_upstream_file", "get_output_filename"}
    \/ last.op = "get_upstream_stream" /\ ~runner.patched

\* TaskRunner(context): a task starts, the runner of the task before it is gone
TaskRunnerInit(context) ==
    /\ ~RunnerObserved
    /\ driver.calls < MaxDrivers
    /\ LET call == get_storage_driver(NoArgs, conf, buckets)
       IN  /\ last' = [op |-> "TaskRunner", res |-> call.res]
           /\ driver' = IF call.res.ok
                        THEN [obj |-> call.res.val, instance |-> driver.calls + 1,
                              calls |-> driver.calls + 1, wrote |-> FALSE]
                        ELSE [driver EXCEPT !.calls = driver.calls + 1]
           /\ runner' = IF call.res.ok THEN TaskRunner(context, call.res.val) ELSE runner
    /\ UNCHANGED <<conf, fsFiles, fsDirs, buckets, written, nwrites>>

\* a writing call of the runner was made: w is what it returned and left,
\* stored the payload that went to the driver
RunnerWrote(op, argument, content_type, w, stored) ==
    /\ fsFiles' = w.files
    /\ fsDirs' = w.dirs
    /\ buckets' = w.buckets
    /\ last' = [op |-> op,
                args |-> TaskArgs(runner.task_instance.dag_id,
                                  runner.task_instance.task_id, runner.date),
                data |-> argument, content_type |-> content_type, stored |-> stored,
                calls |-> w.calls, res |-> w.res]
    /\ written' = IF w.res.ok
                  THEN Record(written,
                              get_filename(runner.storage, runner.task_instance.dag_id,
                                           runner.task_instance.task_id, runner.date),
                              stored)
                  ELSE written
    /\ nwrites' = nwrites + 1
    /\ driver' = [driver EXCEPT !.wrote = TRUE]
    /\ UNCHANGED <<conf, runner>>

\* runner.write_file(data, content_type)
WriteFile(data, content_type) ==
    /\ ~RunnerObserved
    /\ runner.constructed
    /\ nwrites < MaxWrites
    /\ last.op # "get_upstream_stream"
    /\ RunnerWrote("write_file", data, content_type,
                   write_file(fsFiles, fsDirs, buckets, runner, data, content_type), data)

\* runner.write_from_stream(stream, content_type)
WriteFromStream(stream, content_type) ==
    /\ ~RunnerObserved
    /\ runner.constructed
    /\ nwrites < MaxWrites
    /\ last.op # "get_upstream_stream"
    /\ RunnerWrote("write_from_stream", stream, content_type,
                   TaskRunner_write_from_stream(fsFiles, fsDirs, buckets, runner,
                                                stream, content_type),
                   StreamRead(stream))

\* runner.write_json(data)
WriteJson(data) ==
    /\ ~RunnerObserved
    /\ runner.constructed
    /\ nwrites < MaxWrites
    /\ last.op # "get_upstream_stream"
    /\ RunnerWrote("write_json", data, None,
                   write_json(fsFiles, fsDirs, buckets, runner, data), JsonDumps(data))

\* runner.write_pandas_csv(data)
WritePandasCsv(data) ==
    /\ ~RunnerObserved
    /\ runner.constructed
    /\ nwrites < MaxWrites
    /\ last.op # "get_upstream_stream"
    /\ RunnerWrote("write_pandas_csv", data, None,
                   write_pandas_csv(fsFiles, fsDirs, buckets, runner, data),
                   clean_and_write_dataframe_to_csv(data))

\* runner.write_timestamp_file(), datetime.datetime.now() being now
WriteTimestampFile(now) ==
    /\ ~RunnerObserved
    /\ runner.constructed
    /\ nwrites < MaxWrites
    /\ last.op # "get_upstream_stream"
    /\ RunnerWrote("write_timestamp_file", now, None,
                   write_timestamp_file(fsFiles, fsDirs, buckets, runner, now),
                   JsonDumps(PyDict(<<82, 85, 78>>, PyStr(IsoFormat(now)))))

\* runner.get_output_filename()
GetOutputFilename ==
    /\ ~RunnerObserved
    /\ runner.constructed
    /\ LET call == get_output_filename(runner)
       IN  last' = [op |-> "get_output_filename", calls |-> call.calls, res |-> call.res]
    /\ UNCHANGED <<conf, fsFiles, fsDirs, buckets, driver, written, nwrites, runner>>

\* runner.storage.get_read_stream = a stand-in returning a stream that
\* holds content and is at pos
PatchGetReadStream(content, pos) ==
    /\ ~RunnerObserved
    /\ runner.constructed
    /\ ~runner.patched
    /\ pos <= Len(content)
    /\ runner' = [runner EXCEPT !.patched = TRUE, !.reader = FileObject(content, pos)]
    /\ last' = [op |-> "patch"]
    /\ UNCHANGED <<conf, fsFiles, fsDirs, buckets, driver, written, nwrites>>

\* the stand-in's stream is moved by whoever holds it: temp_stream.seek(pos)
SeekReader(pos) ==
    /\ ~RunnerObserved
    /\ runner.constructed
    /\ runner.patched
    /\ pos <= Len(runner.reader.content)
    /\ pos # runner.reader.pos
    /\ runner' = [runner EXCEPT !.reader = StreamSeek(runner.reader, pos)]
    /\ last' = [op |-> "seek"]
    /\ UNCHANGED <<conf, fsFiles, fsDirs, buckets, driver, written, nwrites>>

\* runner.get_upstream_stream(data_dependency_key, dag_id).  `backend` is
\* what self.storage.get_read_stream returned; the stand-in's stream is
\* the object the runner sought on.
GetUpstreamStream(data_dependency_key, dag_id) ==
    /\ ~RunnerObserved
    /\ runner.constructed
    /\ LET res == get_upstream_stream(fsFiles, fsDirs, buckets, runner,
                                      data_dependency_key, dag_id)
           d == IF dag_id = None THEN runner.task_instance.dag_id ELSE dag_id
           known == data_dependency_key \in DOMAIN runner.data_dependencies
       IN  /\ last' = [op |-> "get_upstream_stream",
                       key |-> data_dependency_key, dag_id |-> dag_id, known |-> known,
                       calls |-> get_upstream_stream_calls(runner, data_dependency_key,
                                                           dag_id),
                       backend |-> IF known
                                   THEN storage_get_read_stream(
                                            fsFiles, fsDirs, buckets, runner, d,
                                            runner.data_dependencies[data_dependency_key],
                                            runner.date)
                                   ELSE Raise(KeyError(data_dependency_key)),
                       res |-> res]
           /\ runner' = IF runner.patched /\ res.ok
                        THEN [runner EXCEPT !.reader = res.val]
                        ELSE runner
    /\ UNCHANGED <<conf, fsFiles, fsDirs, buckets, driver, written, nwrites>>

\* runner.get_input_filename(data_dependency, dag_id)
GetInputFilename(data_dependency, dag_id) ==
    /\ ~RunnerObserved
    /\ runner.constructed
    /\ LET call == get_input_filename(runner, data_dependency, dag_id)
       IN  last' = [op |-> "get_input_filename",
                    key |-> data_dependency, dag_id |-> dag_id,
                    known |-> data_dependency \in DOMAIN runner.data_dependencies,
                    calls |-> call.calls, res |-> call.res]
    /\ UNCHANGED <<conf, fsFiles, fsDirs, buckets, driver, written, nwrites, runner>>

\* runner.read_upstream_file(data_dependency_key, dag_id, encoding)
ReadUpstreamFile(data_dependency_key, dag_id, encoding) ==
    /\ ~RunnerObserved
    /\ runner.constructed
    /\ LET call == read_upstream_file(fsFiles, fsDirs, buckets, runner,
                                      data_dependency_key, dag_id, encoding)
       IN  last' = [op |-> "read_upstream_file",
                    key |-> data_dependency_key, dag_id |-> dag_id, encoding |-> encoding,
                    known |-> data_dependency_key \in DOMAIN runner.data_dependencies,
                    calls |-> call.calls, res |-> call.res]
    /\ UNCHANGED <<conf, fsFiles, fsDirs, buckets, driver, written, nwrites, runner>>

RunnerInit == Init

RunnerNext ==
    \/ \E context \in Contexts : TaskRunnerInit(context)
    \/ \E data \in RunnerPayloads : WriteFile(data, DefaultWriteContentType)
    \/ \E content \in ReaderContents, pos \in 0..MaxPos : PatchGetReadStream(content, pos)
    \/ \E pos \in 0..MaxPos : SeekReader(pos)
    \/ \E key \in DependencyKeys, d \in UpstreamDagIds : GetUpstreamStream(key, d)
    \/ \E key \in DependencyKeys, d \in UpstreamDagIds : GetInputFilename(key, d)
    \/ \E key \in DependencyKeys, d \in UpstreamDagIds, enc \in Encodings :
          ReadUpstreamFile(key, d, enc)

RunnerSpec == RunnerInit /\ [][RunnerNext]_vars

-----------------------------------------------------------------------------
(* Task runners writing: WriterSpec                                        *)

\* tasks without dependencies
WriterContexts == {context \in Contexts : context.data_dependencies = <<>>}

WriterInit == Init

WriterNext ==
    \/ \E context \in WriterContexts : TaskRunnerInit(context)
    \/ \E data \in RunnerPayloads, content_type \in RunnerContentTypes :
          WriteFile(data, content_type)
    \/ \E stream \in RunnerStreams : WriteFromStream(stream, DefaultWriteContentType)
    \/ \E data \in JsonObjects : WriteJson(data)
    \/ \E data \in DataFrames : WritePandasCsv(data)
    \/ \E now \in Timestamps : WriteTimestampFile(now)
    \/ GetOutputFilename

WriterSpec == WriterInit /\ [][WriterNext]_vars

-----------------------------------------------------------------------------
(* Task runners: claim C10, under RunnerSpec                               *)

\* C10: whenever the backend's get_read_stream returns a stream, at
\* whatever position, get_upstream_stream returns that stream with its
\* position equal to 0 and nothing else about it changed.
C10_Rewound ==
    (last.op = "get_upstream_stream" /\ last.known /\ last.backend.ok) =>
        /\ last.res.ok
        /\ last.res.val.pos = 0
        /\ last.res.val = [last.backend.val EXCEPT !.pos = 0]

\* the backend returned its stream at an offset inside the content, after
\* an earlier call had returned the same stream rewound
C10_Witness ==
    /\ last.op = "get_upstream_stream"
    /\ last.known
    /\ last.backend.ok
    /\ last.backend.val.pos > 0
    /\ last.backend.val.pos < Len(last.backend.val.content)
    /\ last.res.ok
    /\ last.res.val.pos = 0

\* the last call was one of the three that resolve a dependency name
Upstream == last.op \in {"get_input_filename", "get_upstream_stream", "read_upstream_file"}

\* C11: get_input_filename, get_upstream_stream and read_upstream_file,
\* given a name that is not in data_dependencies, raise KeyError for that
\* name, make no call on the driver and leave the media as they were.
C11_UnknownDependency ==
    [][(Upstream' /\ ~last'.known) =>
           /\ last'.res = Raise(KeyError(last'.key))
           /\ last'.calls = <<>>
           /\ UNCHANGED <<fsFiles, fsDirs, buckets, written, driver>>]_vars

\* read_upstream_file was given 'dep_two' by a runner that depends on
\* 'dep_one' only, after a task had written
C11_Witness ==
    /\ last.op = "read_upstream_file"
    /\ last.key = <<"dep_two">>
    /\ DOMAIN runner.data_dependencies = {<<"dep_one">>}
    /\ nwrites > 0
    /\ ~last.res.ok
    /\ last.res.err.type = "KeyError"

\* the dag id the last upstream call is for: the one given, the task
\* instance's own when none is
UpstreamDagId ==
    IF last.dag_id = None THEN runner.task_instance.dag_id ELSE last.dag_id

\* the one call on the driver the last upstream call is to make
UpstreamCall(method, encoding) ==
    <<BackendCall(method, UpstreamDagId, runner.data_dependencies[last.key],
                  runner.date, encoding)>>

\* C12: for a name in data_dependencies, get_input_filename,
\* read_upstream_file and get_upstream_stream make exactly one call on the
\* driver, with the dag id given (the task instance's own when omitted),
\* the task id the map holds for the name and the runner's own execution
\* date, read_upstream_file passing its encoding on; what they return is
\* what the driver returns for these arguments.
C12_UpstreamArguments ==
    (Upstream /\ last.known) =>
        /\ last.op = "get_input_filename" =>
               /\ last.calls = UpstreamCall("get_filename", None)
               /\ last.res = Return(get_filename(runner.storage, UpstreamDagId,
                                                 runner.data_dependencies[last.key],
                                                 runner.date))
        /\ last.op = "read_upstream_file" =>
               /\ last.calls = UpstreamCall("read", last.encoding)
               /\ last.res = read(fsFiles, fsDirs, buckets, runner.storage, UpstreamDagId,
                                  runner.data_dependencies[last.key], runner.date,
                                  last.encoding)
        /\ last.op = "get_upstream_stream" =>
               /\ last.calls = UpstreamCall("get_read_stream", None)
               /\ ~runner.patched =>
                      last.backend = get_read_stream(fsFiles, fsDirs, buckets,
                                                     runner.storage, UpstreamDagId,
                                                     runner.data_dependencies[last.key],
                                                     runner.date)

\* the runner of task 'b/c' read 'dep_one' of another dag in latin-1: the
\* driver was asked for task 'b' of that dag
C12_Witness ==
    /\ last.op = "read_upstream_file"
    /\ last.known
    /\ last.dag_id = <<"d">>
    /\ last.encoding = "latin-1"
    /\ runner.task_instance.task_id = <<"b", "/", "c">>
    /\ last.calls = <<BackendCall("read", <<"d">>, <<"b">>, runner.date, "latin-1")>>

\* C17 as claimed: constructing a TaskRunner calls no get_storage_driver
\* and constructs no driver; the driver is constructed by the first call
\* of the runner that needs it.
C17_AsClaimed ==
    last.op = "TaskRunner" => (driver.calls = 0 /\ driver.obj = NoDriver)

-----------------------------------------------------------------------------
(* Task runners writing: claim C13, under WriterSpec                       *)

WriteOps ==
    {"write_file", "write_from_stream", "write_json", "write_pandas_csv",
     "write_timestamp_file"}

\* the locator of the runner's own task instance
OwnLocator ==
    get_filename(runner.storage, runner.task_instance.dag_id,
                 runner.task_instance.task_id, runner.date)

\* the S3 key of the runner's own task instance
OwnKeyName ==
    S3StorageDriver_get_key_name(runner.task_instance.dag_id,
                                 runner.task_instance.task_id, runner.date)

\* f and g hold the same at every key but k
SameBut(f, g, k) ==
    /\ DOMAIN f \ {k} = DOMAIN g \ {k}
    /\ \A x \in DOMAIN f \ {k} : f[x] = g[x]

\* the content type the last writing call is to hand to the driver
ForwardedContentType ==
    CASE last.op \in {"write_file", "write_from_stream"} -> last.content_type
      [] last.op \in {"write_json", "write_timestamp_file"} -> <<"application/json">>
      [] last.op = "write_pandas_csv" -> <<"text/csv">>

\* C13: every writing call of the runner makes one call on the driver, for
\* the runner's own dag id, task id and execution date, with the data and
\* the content type it was given (write_json: 'application/json',
\* write_pandas_csv: 'text/csv'); it changes the content of no key but that
\* one, which is the key get_output_filename names.
C13_OwnKeyOnly ==
    [][(last'.op \in WriteOps /\ nwrites' = nwrites + 1) =>
           /\ Len(last'.calls) = 1
           /\ last'.calls[1].dag_id = runner.task_instance.dag_id
           /\ last'.calls[1].task_id = runner.task_instance.task_id
           /\ last'.calls[1].execution_date = runner.date
           /\ last'.calls[1].content_type = ForwardedContentType'
           /\ last'.calls[1].data =
                  (IF last'.op \in {"write_file", "write_from_stream"}
                   THEN last'.data ELSE last'.stored)
           /\ IF runner.storage.kind = "file"
              THEN /\ SameBut(fsFiles, fsFiles', ResolvePath(OwnLocator))
                   /\ buckets' = buckets
              ELSE /\ SameBut(buckets[runner.storage.bucket_name],
                              buckets'[runner.storage.bucket_name], OwnKeyName)
                   /\ SameBut(buckets, buckets', runner.storage.bucket_name)
                   /\ fsFiles' = fsFiles
           /\ last'.res.ok =>
                  /\ get_output_filename(runner).res.val = OwnLocator
                  /\ IF runner.storage.kind = "file"
                     THEN fsFiles'[ResolvePath(OwnLocator)] = last'.stored
                     ELSE /\ OwnLocator = <<"s", "3", ":", "/", "/">>
                                 \o runner.storage.bucket_name \o <<"/">> \o OwnKeyName
                          /\ buckets'[runner.storage.bucket_name][OwnKeyName].data
                                 = last'.stored
                          /\ ForwardedContentType' # None =>
                                 buckets'[runner.storage.bucket_name][OwnKeyName].content_type
                                     = ForwardedContentType']_vars

\* write_json wrote the key of its own task on S3 as 'application/json',
\* while another task's key held its payload
C13_Witness ==
    /\ last.op = "write_json"
    /\ last.res.ok
    /\ runner.storage.kind = "s3"
    /\ Cardinality(DOMAIN written) = 2
    /\ buckets[runner.storage.bucket_name][OwnKeyName].content_type = <<"application/json">>
    /\ buckets[runner.storage.bucket_name][OwnKeyName].data = <<34, 97, 34>>

-----------------------------------------------------------------------------
(* Two task executions writing at once: StepSpec                           *)
(* Each execution is a process of its own with a driver of its own on the  *)
(* same medium, and runs write one system call or S3 request at a time.    *)
(* `runner` holds the two executions.                                      *)

Procs == {1, 2}

\* no boto Key object yet
NoKey == [name |-> <<>>, content_type |-> None, metadata |-> None]

\* a task execution about to call write(dag_id, task_id, execution_date, data)
Process(pc, args, data) ==
    [pc |-> pc, args |-> args, data |-> data, exists |-> FALSE, key |-> NoKey,
     res |-> Return(None)]

\* the file name an execution writes
ProcFilename(p) ==
    FileStorageDriver_get_filename(driver.obj, runner[p].args.dag_id,
                                   runner[p].args.task_id, runner[p].args.execution_date)

\* the execution ends with an exception
Fails(p, err) ==
    runner' = [runner EXCEPT ![p].pc = "done", ![p].res = Raise(err)]

\* check_or_create_dir: os.path.exists(dir)
FileExists(p) ==
    /\ runner[p].pc = "exists"
    /\ LET exists == PathExists(fsFiles, fsDirs, PathDirname(ProcFilename(p)))
       IN  runner' = [runner EXCEPT ![p].exists = exists,
                                    ![p].pc = IF exists THEN "open" ELSE "makedirs"]
    /\ UNCHANGED <<conf, fsFiles, fsDirs, buckets, driver, last, written, nwrites>>

\* check_or_create_dir: os.makedirs(dir)
FileMakedirs(p) ==
    /\ runner[p].pc = "makedirs"
    /\ LET made == makedirs(fsFiles, fsDirs, PathDirname(ProcFilename(p)))
       IN  /\ fsDirs' = made.dirs
           /\ IF made.err # NoError THEN Fails(p, made.err)
              ELSE runner' = [runner EXCEPT ![p].pc = "open"]
    /\ UNCHANGED <<conf, fsFiles, buckets, driver, last, written, nwrites>>

\* open(filename, "w")
FileOpen(p) ==
    /\ runner[p].pc = "open"
    /\ LET filename == ProcFilename(p)
           rp == ResolvePath(filename)
       IN  IF rp \in fsDirs
           THEN /\ Fails(p, Error("IOError", <<"[Errno 21] Is a directory: ">> \o filename))
                /\ fsFiles' = fsFiles
           ELSE IF ResolvePath(PathDirname(filename)) \notin fsDirs
           THEN /\ Fails(p, Error("IOError", <<"[Errno 20] Not a directory: ">> \o filename))
                /\ fsFiles' = fsFiles
           ELSE /\ fsFiles' = OpenForWriting(fsFiles, rp)
                /\ runner' = [runner EXCEPT ![p].pc = "write"]
    /\ UNCHANGED <<conf, fsDirs, buckets, driver, last, written, nwrites>>

\* f.write(data), and the file is closed
FileWrite(p) ==
    /\ runner[p].pc = "write"
    /\ fsFiles' = FileWriteData(fsFiles, ResolvePath(ProcFilename(p)), runner[p].data)
    /\ runner' = [runner EXCEPT ![p].pc = "done"]
    /\ written' = Record(written, ProcFilename(p), runner[p].data)
    /\ nwrites' = nwrites + 1
    /\ UNCHANGED <<conf, fsDirs, buckets, driver, last>>

\* the S3 key an execution writes
ProcKeyName(p) ==
    S3StorageDriver_get_key_name(runner[p].args.dag_id, runner[p].args.task_id,
                                 runner[p].args.execution_date)

\* get_or_create_key, and key.set_metadata('Content-Type', 'text/plain')
S3GetKey(p) ==
    /\ runner[p].pc = "get_key"
    /\ runner' = [runner EXCEPT
           ![p].key = KeySetMetadata(get_or_create_key(buckets[driver.obj.bucket_name],
                                                       ProcKeyName(p)),
                                     DefaultWriteContentType),
           ![p].pc = "put"]
    /\ UNCHANGED <<conf, fsFiles, fsDirs, buckets, driver, last, written, nwrites>>

\* key.set_contents_from_string(data)
S3Put(p) ==
    /\ runner[p].pc = "put"
    /\ buckets' = [buckets EXCEPT ![driver.obj.bucket_name] =
                      KeySetContents(buckets[driver.obj.bucket_name], runner[p].key,
                                     runner[p].data)]
    /\ runner' = [runner EXCEPT ![p].pc = "set_acl"]
    /\ UNCHANGED <<conf, fsFiles, fsDirs, driver, last, written, nwrites>>

\* key.set_acl('private')
S3SetAcl(p) ==
    /\ runner[p].pc = "set_acl"
    /\ buckets' = [buckets EXCEPT ![driver.obj.bucket_name] =
                      KeySetAcl(buckets[driver.obj.bucket_name], runner[p].key, "private")]
    /\ runner' = [runner EXCEPT ![p].pc = "done"]
    /\ written' = Record(written,
                         S3StorageDriver_get_filename(driver.obj, runner[p].args.dag_id,
                                                      runner[p].args.task_id,
                                                      runner[p].args.execution_date),
                         runner[p].data)
    /\ nwrites' = nwrites + 1
    /\ UNCHANGED <<conf, fsFiles, fsDirs, driver, last>>

\* two executions with different (dag_id, task_id, execution_date), each
\* holding the driver get_storage_driver() gave it; the first is to write
\* 'a', the second 'bc'
StepInit ==
    /\ conf \in Deployments
    /\ buckets = [b \in {<<"a","r","t","i","f","a","c","t","s","q","a">>} |-> <<>>]
    /\ fsFiles = <<>>
    /\ fsDirs = {}
    /\ driver = [obj |-> get_storage_driver(NoArgs, conf, buckets).res.val,
                 instance |-> 1, calls |-> 1, wrote |-> FALSE]
    /\ last = NoCall
    /\ written = <<>>
    /\ nwrites = 0
    /\ \E d \in DagIds, t1 \in TaskIds, t2 \in TaskIds,
          e1 \in ExecutionDates, e2 \in ExecutionDates :
          /\ TaskArgs(d, t1, e1) # TaskArgs(d, t2, e2)
          /\ LET pc == IF driver.obj.kind = "file" THEN "exists" ELSE "get_key"
             IN  runner = (1 :> Process(pc, TaskArgs(d, t1, e1), <<97>>))
                       @@ (2 :> Process(pc, TaskArgs(d, t2, e2), <<98, 99>>))

StepNext ==
    \/ \E p \in Procs : FileExists(p)
    \/ \E p \in Procs : FileMakedirs(p)
    \/ \E p \in Procs : FileOpen(p)
    \/ \E p \in Procs : FileWrite(p)
    \/ \E p \in Procs : S3GetKey(p)
    \/ \E p \in Procs : S3Put(p)
    \/ \E p \in Procs : S3SetAcl(p)

StepSpec == StepInit /\ [][StepNext]_vars

-----------------------------------------------------------------------------
(* Writing step by step: claims C18 and C19, under StepSpec                *)

\* C18 as claimed: S3StorageDriver.write applies the private ACL before it
\* uploads, so that every object that is in the bucket has had the
\* private ACL applied.
C18_AsClaimed ==
    \A b \in DOMAIN buckets : \A k \in DOMAIN buckets[b] : buckets[b][k].acl = "private"

\* C19 as claimed: whatever the interleaving, when both executions are
\* done both writes have succeeded and each key holds the payload of its
\* own execution.
C19_AsClaimed ==
    (\A p \in Procs : runner[p].pc = "done") =>
        \A p \in Procs :
            /\ runner[p].res.ok
            /\ Stored(get_filename(driver.obj, runner[p].args.dag_id,
                                   runner[p].args.task_id, runner[p].args.execution_date))
                   = runner[p].data

\* C25 as claimed: no write on the file system fails in making the
\* directory of its file, whatever the other execution does between its
\* steps: a directory that is there already is no error.
C25_AsClaimed ==
    \A p \in Procs :
        ~(/\ driver.obj.kind = "file"
          /\ runner[p].pc = "done"
          /\ ~runner[p].res.ok
          /\ runner[p].res.err.type = "OSError")

-----------------------------------------------------------------------------
(* Writing from a stream: StreamSpec, and claim C20                        *)

\* the stream 'ab', at its start and after one byte was read from it
Streams == {FileObject(<<97, 98>>, 0), FileObject(<<97, 98>>, 1)}

\* driver.write_from_stream(dag_id, task_id, execution_date, stream,
\* content_type)
DriverWriteFromStream(dag_id, task_id, execution_date, stream, content_type) ==
    /\ driver.obj.kind # "none"
    /\ nwrites < MaxWrites
    /\ LET w == write_from_stream(fsFiles, fsDirs, buckets, driver.obj,
                                  dag_id, task_id, execution_date, stream, content_type)
       IN  /\ fsFiles' = w.files
           /\ fsDirs' = w.dirs
           /\ buckets' = w.buckets
           /\ last' = [op |-> "StorageDriver.write_from_stream",
                       instance |-> driver.instance,
                       args |-> TaskArgs(dag_id, task_id, execution_date),
                       stream |-> stream, after |-> w.stream,
                       content_type |-> content_type, res |-> w.res]
           /\ written' = IF w.res.ok
                         THEN Record(written,
                                     get_filename(driver.obj, dag_id, task_id, execution_date),
                                     StreamRead(stream))
                         ELSE written
    /\ nwrites' = nwrites + 1
    /\ driver' = [driver EXCEPT !.wrote = TRUE]
    /\ UNCHANGED <<conf, runner>>

StreamInit == Init

\* a key is written 'xyz' or from a stream, in any order
StreamNext ==
    \/ Construct
    \/ \E d \in DagIds, t \in TaskIds, e \in ExecutionDates :
          Write(d, t, e, <<120, 121, 122>>, DefaultWriteContentType)
    \/ \E d \in DagIds, t \in TaskIds, e \in ExecutionDates,
          stream \in Streams, content_type \in RunnerContentTypes :
          DriverWriteFromStream(d, t, e, stream, content_type)

StreamSpec == StreamInit /\ [][StreamNext]_vars

\* what a stream yields from its position on
Yield(stream) == SubSeq(stream.content, stream.pos + 1, Len(stream.content))

\* C20: write_from_stream(dag_id, task_id, execution_date, stream,
\* content_type) changes the medium as write(dag_id, task_id,
\* execution_date, stream.read(), content_type) does and ends as it ends;
\* it leaves the stream at its end, and what is stored at the key after it
\* is what the stream held from its position on; the S3 object has the
\* content type that was passed, when one was passed.
C20_ReadAllThenWrite ==
    [][last'.op = "StorageDriver.write_from_stream" /\ nwrites' = nwrites + 1 =>
         LET args == last'.args
             w == write(fsFiles, fsDirs, buckets, driver.obj, args.dag_id, args.task_id,
                        args.execution_date, Yield(last'.stream), last'.content_type)
         IN  /\ fsFiles' = w.files
             /\ fsDirs' = w.dirs
             /\ buckets' = w.buckets
             /\ last'.res = w.res
             /\ last'.after.content = last'.stream.content
             /\ last'.after.pos = Len(last'.stream.content)
             /\ last'.res.ok /\ driver.obj.kind = "file" =>
                    fsFiles'[ResolvePath(FileStorageDriver_get_filename(driver.obj,
                                 args.dag_id, args.task_id, args.execution_date))]
                        = Yield(last'.stream)
             /\ driver.obj.kind = "s3" =>
                    LET object == buckets'[driver.obj.bucket_name][
                                      S3StorageDriver_get_key_name(args.dag_id, args.task_id,
                                                                   args.execution_date)]
                    IN  /\ object.data = Yield(last'.stream)
                        /\ last'.content_type # None =>
                               object.content_type = last'.content_type]_vars

\* a stream one byte in was written over a longer payload on S3 with no
\* content type, and is at its end
C20_Witness ==
    /\ last.op = "StorageDriver.write_from_stream"
    /\ last.res.ok
    /\ last.stream.pos = 1
    /\ last.after.pos = 2
    /\ last.content_type = None
    /\ driver.obj.kind = "s3"
    /\ nwrites = 2
    /\ Stored(LastLocator) = <<98>>
    /\ written[LastLocator].longest = 3

\* C21 as claimed: after a write or a write_from_stream on S3 the object
\* at the key has the content type that was passed, and
\* 'application/octet-stream' when None was passed, whether or not an
\* object was at the key before.
C21_AsClaimed ==
    (/\ last.op \in {"write", "StorageDriver.write_from_stream"}
     /\ driver.obj.kind = "s3"
     /\ last.res.ok) =>
        buckets[driver.obj.bucket_name][LastKeyName].content_type
            = IF last.content_type = None THEN DefaultContentType ELSE last.content_type

-----------------------------------------------------------------------------
(* Tables as csv: TableSpec, and claim C24                                 *)

\* rows per table
MaxRows == 2

\* the cells of the tables written: None, NaN, 'a', 'None', 'NA' and '",'
TableCells ==
    {NoneCell, NaNCell, Cell(<<97>>), Cell(<<78, 111, 110, 101>>), Cell(<<78, 65>>),
     Cell(<<34, 44>>)}

\* tables of the columns 'a', or 'a' and 'b'
Tables ==
    {DataFrame(columns, rows) :
        columns \in {<<<<97>>>>, <<<<97>>, <<98>>>>},
        rows \in UNION {[1..n -> [1..2 -> TableCells]] : n \in 0..MaxRows}}

\* the tables of Tables with the cells their columns have
TablesWritten ==
    {DataFrame(data.columns,
               [i \in DOMAIN data.rows |-> SubSeq(data.rows[i], 1, Len(data.columns))]) :
        data \in Tables}

\* the fields of the csv payloads read: '', 'None', 'x' and 'NA'
CsvFields == {<<>>, <<78, 111, 110, 101>>, <<120>>, <<78, 65>>}

\* a header and one record of two fields, none of them quoted
CsvGrids == {<<<<<<97>>, <<98>>>>, <<f, g>>>> : f \in CsvFields, g \in CsvFields}

\* the payload of a grid: fields joined with ',', a newline after each record
RECURSIVE PlainCsv(_)
PlainCsv(grid) ==
    IF grid = <<>> THEN <<>>
    ELSE Head(grid)[1] \o <<44>> \o Head(grid)[2] \o <<10>> \o PlainCsv(Tail(grid))

\* no table: the payload read was written by no call of the behaviour
NoTable == [written |-> FALSE, data |-> DataFrame(<<>>, <<>>)]
TableOf(data) == [written |-> TRUE, data |-> data]

\* read_and_clean_csv_to_dataframe(stream), the stream holding text; from is
\* the table the text was written from
ReadCsv(text, from) ==
    /\ last' = [op |-> "read_and_clean_csv_to_dataframe", text |-> text, from |-> from,
                res |-> read_and_clean_csv_to_dataframe(text)]
    /\ UNCHANGED <<conf, fsFiles, fsDirs, buckets, driver, written, nwrites, runner>>

\* clean_and_write_dataframe_to_csv(data, None)
WriteCsv(data) ==
    /\ last' = [op |-> "clean_and_write_dataframe_to_csv", text |-> <<>>,
                from |-> TableOf(data),
                res |-> Return(clean_and_write_dataframe_to_csv(data))]
    /\ UNCHANGED <<conf, fsFiles, fsDirs, buckets, driver, written, nwrites, runner>>

TableInit == Init /\ conf.options["storage_type"] = <<"f","i","l","e">>

\* a payload is read, the table read is written, and what was written is
\* read again; or a table is written and read again
TableNext ==
    \/ last.op = "none" /\ \E grid \in CsvGrids : ReadCsv(PlainCsv(grid), NoTable)
    \/ last.op = "none" /\ ReadCsv(<<>>, NoTable)
    \/ last.op = "none" /\ \E data \in TablesWritten : WriteCsv(data)
    \/ /\ last.op = "read_and_clean_csv_to_dataframe"
       /\ ~last.from.written
       /\ last.res.ok
       /\ WriteCsv(last.res.val)
    \/ /\ last.op = "clean_and_write_dataframe_to_csv"
       /\ ReadCsv(last.res.val, last.from)

TableSpec == TableInit /\ [][TableNext]_vars

\* the cell holds no str
IsNull(cell) == cell.is # "str"

\* a text that is read as null
ReadAsNull(value) == value \in NaValues \cup {<<78, 111, 110, 101>>}

\* the tables have the same columns and as many rows
SameShape(data, other) ==
    /\ data.columns = other.columns
    /\ Len(data.rows) = Len(other.rows)
    /\ \A i \in DOMAIN data.rows : Len(data.rows[i]) = Len(other.rows[i])

\* the line written for a row of two cells whose texts are given
QuotedLine(first, second) ==
    <<34>> \o first \o <<34, 44, 34>> \o second \o <<34, 10>>

\* what is between the quotes of the field written for a cell: None for a
\* null, '""' for the '"' of the cell '",'
FieldWritten(cell) ==
    IF IsNull(cell) THEN <<78, 111, 110, 101>>
    ELSE IF cell.value = <<34, 44>> THEN <<34, 34, 44>>
    ELSE cell.value

-----------------------------------------------------------------------------
(* fileflow/operators/dive_operator.py, and OperatorSpec                   *)

\* a Python object held in the storage slot: what it is, and which object
\* it is (0 for None)
Object(obj, id) == [obj |-> obj, id |-> id]
NoneObject == Object(NoDriver, 0)

\* DiveOperator.__init__
DiveOperator(data_dependencies) ==
    [data_dependencies |-> data_dependencies, _storage |-> NoneObject]

\* the storage property with a driver constructed at every read
DiveOperator_storage_Eager(self, c, bk, id) ==
    LET call == get_storage_driver(NoArgs, c, bk)
    IN  IF call.res.ok
        THEN [res |-> Return(Object(call.res.val, id)), called |-> TRUE,
              self |-> [self EXCEPT !._storage = Object(call.res.val, id)]]
        ELSE [res |-> [ok |-> FALSE, val |-> NoneObject, err |-> call.res.err],
              called |-> TRUE, self |-> self]

\* the storage property read: [res, called, self], called telling whether
\* get_storage_driver was called, id the identity of the object it
\* constructs
DiveOperator_storage(self, c, bk, id) ==
    IF self._storage = NoneObject
    THEN LET call == get_storage_driver(NoArgs, c, bk)
         IN  IF call.res.ok
             THEN [res |-> Return(Object(call.res.val, id)), called |-> TRUE,
                   self |-> [self EXCEPT !._storage = Object(call.res.val, id)]]
             ELSE [res |-> [ok |-> FALSE, val |-> NoneObject, err |-> call.res.err],
                   called |-> TRUE, self |-> self]
    ELSE [res |-> Return(self._storage), called |-> FALSE, self |-> self]

\* the storage property assigned
DiveOperator_storage_setter(self, value) == [self EXCEPT !._storage = value]

\* reads and assignments of the property per operator
MaxAccess == 3

\* what is assigned: None, a Mock, a driver made by the test
MockObject == Object([NoDriver EXCEPT !.kind = "mock"], 100)
Assigned == {NoneObject, MockObject, Object(FileStorageDriver(<<"/", "t">>), 101)}

\* an access of the property, as the log keeps it
Access(op, value, res, called) == [op |-> op, value |-> value, res |-> res, called |-> called]

\* the operator is created
DiveOperatorInit ==
    /\ ~runner.constructed
    /\ runner' = [constructed |-> TRUE, self |-> DiveOperator(<<>>), log |-> <<>>]
    /\ last' = [op |-> "DiveOperator"]
    /\ UNCHANGED <<conf, fsFiles, fsDirs, buckets, driver, written, nwrites>>

\* operator.storage is read
StorageGet ==
    /\ runner.constructed
    /\ Len(runner.log) < MaxAccess
    /\ LET get == DiveOperator_storage(runner.self, conf, buckets, driver.calls + 1)
           access == Access("get", NoneObject, get.res, get.called)
       IN  /\ runner' = [runner EXCEPT !.self = get.self, !.log = Append(runner.log, access)]
           /\ driver' = IF get.called THEN [driver EXCEPT !.calls = driver.calls + 1]
                        ELSE driver
           /\ last' = [op |-> "storage"] @@ access
    /\ UNCHANGED <<conf, fsFiles, fsDirs, buckets, written, nwrites>>

\* operator.storage = value
StorageSet(value) ==
    /\ runner.constructed
    /\ Len(runner.log) < MaxAccess
    /\ LET access == Access("set", value, Return(NoneObject), FALSE)
       IN  /\ runner' = [runner EXCEPT !.self = DiveOperator_storage_setter(runner.self, value),
                                       !.log = Append(runner.log, access)]
           /\ last' = [op |-> "storage.setter"] @@ access
    /\ UNCHANGED <<conf, fsFiles, fsDirs, buckets, driver, written, nwrites>>

\* either deployment, the bucket of the S3 deployment there or not
OperatorInit ==
    /\ conf \in Deployments
    /\ buckets \in {<<>>, [b \in {<<"a","r","t","i","f","a","c","t","s","q","a">>} |-> <<>>]}
    /\ fsFiles = <<>>
    /\ fsDirs = {}
    /\ driver = NoDriverInstance
    /\ last = NoCall
    /\ written = <<>>
    /\ nwrites = 0
    /\ runner = NoRunner

OperatorNext ==
    \/ DiveOperatorInit
    \/ StorageGet
    \/ \E value \in Assigned : StorageSet(value)

OperatorSpec == OperatorInit /\ [][OperatorNext]_vars

-----------------------------------------------------------------------------
(* The storage slot: claim C26, under OperatorSpec                         *)

\* the accesses of the log between the i-th and the j-th
Between(i, j) == {k \in DOMAIN runner.log : i < k /\ k < j}

\* the j-th access is a read that returned, and the i-th is the last
\* assignment before it
ReadsAssigned(i, j) ==
    /\ i < j
    /\ runner.log[i].op = "set"
    /\ runner.log[j].op = "get"
    /\ \A k \in Between(i, j) : runner.log[k].op = "get"

\* C26 as claimed: an operator is created with no backend; the first read
\* calls get_storage_driver once and the reads after it return the same
\* instance and call nothing; a value that was assigned is what every read
\* after it returns, and when a value is assigned before the first read
\* get_storage_driver is never called.
C26_AsClaimed ==
    runner.constructed =>
        /\ runner.log = <<>> => (runner.self._storage = NoneObject /\ driver.calls = 0)
        /\ \A i \in DOMAIN runner.log : \A j \in DOMAIN runner.log :
               /\ ReadsAssigned(i, j) =>
                      /\ runner.log[j].res.ok
                      /\ runner.log[j].res.val = runner.log[i].value
                      /\ ~runner.log[j].called
               /\ (/\ i < j
                   /\ \A k \in i..j : runner.log[k].op = "get") =>
                      /\ ~runner.log[j].called
                      /\ runner.log[j].res.val = runner.log[i].res.val
        /\ (runner.log # <<>> /\ runner.log[1].op = "set") => driver.calls = 0

\* C26: an operator is created with no backend (_storage is None); a read
\* of the property when _storage is None calls get_storage_driver once,
\* and keeps and returns the driver when one is returned; the reads after
\* a read that returned a driver return that instance and call nothing; a
\* value other than None that was assigned is what every read after it
\* returns, without a call, until another is assigned; when every value
\* assigned is other than None and one is assigned before the first read,
\* get_storage_driver is never called.
C26_DeferredSlot ==
    runner.constructed =>
        /\ runner.log = <<>> => (runner.self._storage = NoneObject /\ driver.calls = 0)
        /\ driver.calls = Cardinality({k \in DOMAIN runner.log : runner.log[k].called})
        /\ \A j \in DOMAIN runner.log :
               (runner.log[j].op = "get" /\ runner.log[j].called) =>
                   \/ j = 1
                   \/ runner.log[j - 1].op = "set" /\ runner.log[j - 1].value = NoneObject
                   \/ runner.log[j - 1].op = "get" /\ ~runner.log[j - 1].res.ok
        /\ \A i \in DOMAIN runner.log : \A j \in DOMAIN runner.log :
               /\ (ReadsAssigned(i, j) /\ runner.log[i].value # NoneObject) =>
                      /\ runner.log[j].res.ok
                      /\ runner.log[j].res.val = runner.log[i].value
                      /\ ~runner.log[j].called
               /\ (/\ i < j
                   /\ \A k \in i..j : runner.log[k].op = "get"
                   /\ runner.log[i].res.ok) =>
                      /\ ~runner.log[j].called
                      /\ runner.log[j].res.ok
                      /\ runner.log[j].res.val = runner.log[i].res.val
        /\ (/\ runner.log # <<>>
            /\ runner.log[1].op = "set"
            /\ \A k \in DOMAIN runner.log :
                   runner.log[k].op = "set" => runner.log[k].value # NoneObject)
               => driver.calls = 0
        /\ (runner.log # <<>> /\ runner.log[Len(runner.log)].op = "get"
                /\ runner.log[Len(runner.log)].res.ok) =>
               runner.self._storage = runner.log[Len(runner.log)].res.val

\* the property was read twice and returned one driver, constructed at the
\* first read, and then a Mock was assigned
C26_Witness ==
    /\ runner.constructed
    /\ Len(runner.log) = 3
    /\ runner.log[1].op = "get" /\ runner.log[1].called /\ runner.log[1].res.ok
    /\ runner.log[2].op = "get" /\ ~runner.log[2].called
    /\ runner.log[2].res.val = runner.log[1].res.val
    /\ runner.log[3].op = "set" /\ runner.self._storage = MockObject
    /\ driver.calls = 1

-----------------------------------------------------------------------------
(* Listing a path: ListSpec, and claim C27                                 *)

\* the tasks written and listed: 'b', its sibling 'bc', and 'b/c' below it
ListTaskIds == {<<"b">>, <<"b", "c">>, <<"b", "/", "c">>}

\* the '/' characters a path is given with at its end
TrailingSlashes == {<<>>, <<"/">>, <<"/", "/">>}

\* driver.list_filenames_in_path(path), the path being that of a task
\* followed by slashes
ListFilenamesInPath(dag_id, task_id, slashes) ==
    /\ last.op # "list_filenames_in_path"
    /\ driver.obj.kind # "none"
    /\ LET path == get_path(driver.obj, dag_id, task_id) \o slashes
       IN  last' = [op |-> "list_filenames_in_path", instance |-> driver.instance,
                    args |-> [dag_id |-> dag_id, task_id |-> task_id], path |-> path,
                    res |-> Return(list_filenames_in_path(fsFiles, fsDirs, buckets,
                                                          driver.obj, path))]
    /\ UNCHANGED <<conf, fsFiles, fsDirs, buckets, driver, written, nwrites, runner>>

ListInit == Init

\* artifacts are written, then a path is listed
ListNext ==
    \/ last.op # "list_filenames_in_path" /\ Construct
    \/ /\ last.op # "list_filenames_in_path"
       /\ \E d \in DagIds, t \in ListTaskIds, e \in ExecutionDates :
              Write(d, t, e, <<97>>, DefaultWriteContentType)
    \/ \E d \in DagIds, t \in ListTaskIds, slashes \in TrailingSlashes :
          ListFilenamesInPath(d, t, slashes)

ListSpec == ListInit /\ [][ListNext]_vars

\* the key prefix of the task listed, ending with one '/'
ListedPrefix == last.args.dag_id \o <<"/">> \o last.args.task_id \o <<"/">>

\* C27: whatever the number of '/' the path ends with, the names the S3
\* driver returns are the stored keys that begin with the key prefix of
\* the path followed by one '/', that prefix removed: as many names as
\* there are such keys and each of them the rest of one, so that none is
\* from a key of a sibling whose name begins with the name listed.
C27_NormalisedPrefix ==
    (last.op = "list_filenames_in_path" /\ driver.obj.kind = "s3") =>
        LET bucket == buckets[driver.obj.bucket_name]
            names == Range(last.res.val)
            under == {k \in DOMAIN bucket : SubSeq(k, 1, Len(ListedPrefix)) = ListedPrefix}
        IN  /\ \A name \in names : ListedPrefix \o name \in under
            /\ \A k \in under : \E name \in names : ListedPrefix \o name = k
            /\ Len(last.res.val) = Cardinality(under)

\* task 'b' was listed on S3 with two '/' at the end of the path, with an
\* artifact of 'b' and one of its sibling 'bc' stored, and one name was
\* returned
C27_Witness ==
    /\ last.op = "list_filenames_in_path"
    /\ driver.obj.kind = "s3"
    /\ last.args.task_id = <<"b">>
    /\ last.path = S3StorageDriver_get_path(driver.obj, <<"a">>, <<"b">>) \o <<"/", "/">>
    /\ nwrites = 2
    /\ \E k \in DOMAIN buckets[driver.obj.bucket_name] :
           SubSeq(k, 1, 5) = <<"a", "/", "b", "c", "/">>
    /\ Len(last.res.val) = 1

-----------------------------------------------------------------------------
(* Every call of the interface: FrameSpec, and claim C28                   *)

\* driver.get_filename(dag_id, task_id, execution_date)
GetFilename(dag_id, task_id, execution_date) ==
    /\ driver.obj.kind # "none"
    /\ last' = [op |-> "driver.get_filename", instance |-> driver.instance,
                args |-> TaskArgs(dag_id, task_id, execution_date),
                res |-> Return(get_filename(driver.obj, dag_id, task_id, execution_date))]
    /\ UNCHANGED <<conf, fsFiles, fsDirs, buckets, driver, written, nwrites, runner>>

\* driver.get_path(dag_id, task_id)
GetPath(dag_id, task_id) ==
    /\ driver.obj.kind # "none"
    /\ last' = [op |-> "driver.get_path", instance |-> driver.instance,
                args |-> [dag_id |-> dag_id, task_id |-> task_id],
                res |-> Return(get_path(driver.obj, dag_id, task_id))]
    /\ UNCHANGED <<conf, fsFiles, fsDirs, buckets, driver, written, nwrites, runner>>

\* the calls that are to leave the media as they are
ReadSide ==
    {"driver.get_filename", "driver.get_path", "read", "get_read_stream",
     "list_filenames_in_path", "list_filenames_in_task"}

\* such a call was made: it changed nothing but `last`, and a behaviour
\* ends with it
FrameObserved == last.op \in ReadSide

FrameInit == Init

FrameNext ==
    \/ ~FrameObserved /\ Construct
    \/ /\ ~FrameObserved
       /\ \E d \in DagIds, t \in TaskIds, e \in ExecutionDates :
              Write(d, t, e, <<97>>, DefaultWriteContentType)
    \/ /\ ~FrameObserved
       /\ \E d \in DagIds, t \in TaskIds, e \in ExecutionDates, stream \in Streams :
              DriverWriteFromStream(d, t, e, stream, DefaultWriteContentType)
    \/ /\ ~FrameObserved
       /\ \E d \in DagIds, t \in TaskIds, e \in ExecutionDates : GetFilename(d, t, e)
    \/ ~FrameObserved /\ \E d \in DagIds, t \in TaskIds : GetPath(d, t)
    \/ /\ ~FrameObserved
       /\ \E d \in DagIds, t \in TaskIds, e \in ExecutionDates : Read(d, t, e, "utf-8")
    \/ /\ ~FrameObserved
       /\ \E d \in DagIds, t \in TaskIds, e \in ExecutionDates : GetReadStream(d, t, e)
    \/ /\ ~FrameObserved
       /\ \E d \in DagIds, t \in TaskIds, slashes \in {<<>>, <<"/">>} :
              ListFilenamesInPath(d, t, slashes)
    \/ ~FrameObserved /\ \E d \in DagIds, t \in TaskIds : ListFilenamesInTask(d, t)

FrameSpec == FrameInit /\ [][FrameNext]_vars

\* C28: a call of get_filename, get_path, read, get_read_stream,
\* list_filenames_in_path or list_filenames_in_task leaves the files, the
\* directories and the buckets with their objects as they were, whether it
\* returns or raises; a step that changes any of them is a call of write
\* or of write_from_stream.
C28_ReadSideFrame ==
    [][/\ last'.op \in ReadSide =>
              /\ fsFiles' = fsFiles
              /\ fsDirs' = fsDirs
              /\ buckets' = buckets
       /\ (fsFiles' # fsFiles \/ fsDirs' # fsDirs \/ buckets' # buckets) =>
              last'.op \in {"write", "StorageDriver.write_from_stream"}]_vars

\* a key that was never written was read on the file system, in a
\* directory that an artifact was written to, and the read raised
C28_Witness ==
    /\ last.op = "read"
    /\ ~last.res.ok
    /\ driver.obj.kind = "file"
    /\ nwrites = 1
    /\ ResolvePath(PathDirname(LastLocator)) \in fsDirs
    /\ Cardinality(DOMAIN fsFiles) = 1

-----------------------------------------------------------------------------
(* Locators: KeySpec                                                       *)

\* prefixes: absolute, with a trailing separator, relative (the default
\* of the configuration), empty
KeyPrefixes == {<<"/","d","a","t","a">>, <<"/","d","a","t","a","/">>,
                <<"s","t","o","r","a","g","e">>, <<>>}

\* ids: plain, holding a separator, starting with one
KeyDagIds == {<<"a">>, <<"a","/","b">>, <<"/","a">>}
KeyTaskIds == {<<"b">>, <<"c">>, <<"b","/","c">>}

\* two times of one day, and the day after
KeyDates == ExecutionDates \cup {Date(2024, 3, 1, 0)}

KeyTriples == {TaskArgs(d, t, e) : d \in KeyDagIds, t \in KeyTaskIds, e \in KeyDates}

\* the locators of two task instances, on a file driver with the prefix
\* and on the S3 driver of a bucket
GetFilenames(prefix, bucket_name, first, second) ==
    /\ last.op = "none"
    /\ LET file == FileStorageDriver(prefix)
           s3 == [NoDriver EXCEPT !.kind = "s3", !.bucket_name = bucket_name]
           Names(t) ==
               [filename |-> FileStorageDriver_get_filename(file, t.dag_id, t.task_id,
                                                            t.execution_date),
                path |-> FileStorageDriver_get_path(file, t.dag_id, t.task_id),
                key_name |-> S3StorageDriver_get_key_name(t.dag_id, t.task_id,
                                                          t.execution_date),
                url |-> S3StorageDriver_get_filename(s3, t.dag_id, t.task_id,
                                                     t.execution_date)]
       IN  last' = [op |-> "get_filename", prefix |-> prefix, bucket_name |-> bucket_name,
                    first |-> first, second |-> second,
                    names |-> <<Names(first), Names(second)>>]
    /\ UNCHANGED <<conf, fsFiles, fsDirs, buckets, driver, written, nwrites, runner>>

KeyInit == Init

KeyNext ==
    \E prefix \in KeyPrefixes, first \in KeyTriples, second \in KeyTriples :
        GetFilenames(prefix, <<"a","r","t","i","f","a","c","t","s","q","a">>, first, second)

KeySpec == KeyInit /\ [][KeyNext]_vars

-----------------------------------------------------------------------------
(* Locators: claims C14 and C15, under KeySpec                             *)

\* C14 as claimed: the same triple gives the same key, and two triples
\* that differ give keys and file names that differ.
C14_AsClaimed ==
    last.op = "get_filename" =>
        /\ last.first = last.second => last.names[1] = last.names[2]
        /\ last.first # last.second =>
               /\ last.names[1].key_name # last.names[2].key_name
               /\ last.names[1].filename # last.names[2].filename

\* a string that is not empty and neither starts nor ends with a separator
Plain(str) == str # <<>> /\ str[1] # "/" /\ str[Len(str)] # "/"

====
